---- MODULE Spec2Model ----
(***************************************************************************)
(* Model of kubac: the install sequencer (internal/install/installer.go,   *)
(* internal/render/renderer.go, the install command) and the verification  *)
(* run (verify package, internal/cli/verify.go).                           *)
(*                                                                         *)
(* Errors are modelled as wrap chains: a sequence of messages, outermost   *)
(* first, so fmt.Errorf("p: %w", e) is <<"p">> \o e and err.Error() is the *)
(* chain joined by ": ".  nil is the empty chain.                          *)
(***************************************************************************)
EXTENDS Integers, Sequences, FiniteSets, TLC

VARIABLES
    \* ---- shared by the commands -------------------------------------------
    cfgFile,      \* the configuration stored in kubac.yaml
    config,       \* the loaded *config.Config the command works on
    exitErr,      \* error returned by the command's RunE (nil: exit code 0)
    cluster,      \* live cluster: namespaces and applied manifests
    pollTick,     \* ticks of the poll interval elapsed in the active poll
    pollClosed,   \* the poller's channel was closed by its timeout timer
    \* ---- install command --------------------------------------------------
    flagMode,     \* the --mode flag of the install command ("" = not given)
    ipc,          \* position of the install command
    installErr,   \* error returned by Installer.Install (wrap chain)
    applyLog,     \* paths applyManifests was invoked with, in call order
    clusterReqs,  \* mutating requests Install issued to the cluster, in order
    fs,           \* filesystem: directories and files that exist
    rendered,     \* paths created or written on the filesystem by this run
    waitResult,   \* outcome of waitForDeployment: "none", "ready", "timeout"
    observed,     \* last answer to the deployment Get of waitForDeployment
    nsOutcome,    \* reason of the API server's answer to the namespace create
    runs,         \* number of install runs started against this cluster
    prevOk,       \* the previous install run on this cluster succeeded
    \* ---- verify command ---------------------------------------------------
    vpc,          \* position of the verify command
    vi,           \* RunAll's loop index into config.Tests (1-based)
    results,      \* results.Tests: the TestResults appended so far
    summary,      \* results.Summary
    invoked,      \* the probe functions RunAll called, in call order
    ppc,          \* position inside the running probe: "idle" or "poll"
    initialReplicas, \* testPodSelfHeal: the baseline readyReplicas
    podName,      \* testPodSelfHeal: the pod it deleted
    depErr,       \* testPodSelfHeal: err of its last Get of the deployment
    createErr,    \* testPolicyDeny: err of its Create of the privileged pod
    probeCalls,   \* API requests sent by the current loop iteration
    report,       \* content of the report file (NoReport: not written)
    printed,      \* what PrintSummary wrote to stdout (NoReport: nothing)
    \* ---- one call of the condition poller ---------------------------------
    pollInterval, \* the interval argument of the call
    pollTimeout,  \* the timeout argument of the call
    pollCond,     \* the caller whose condition closure is polled
    pollBaseline, \* initialReplicas captured by testPodSelfHeal's closure
    pollPc,       \* "start", "wait" or "done"
    pollEvals,    \* evaluations of the condition so far
    pollSleeps,   \* waits on the poller's channel so far
    pollErrs,     \* evaluations whose Get returned an error
    pollElapsed,  \* time since the call, at the last evaluation
    pollLast,     \* the Get answer of the last evaluation
    pollResult,   \* what the call returned: "none", "ok", "timeout", "error"
    \* ---- config file round trip ------------------------------------------
    cpc,          \* "write", "load" or "done"
    cfgObj,       \* the *Config handed to WriteConfig
    yamlFile,     \* bytes of the file at the path (NoFile: no such file)
    loaded,       \* the *Config LoadConfig returned (NoConfig: none)
    cfgErr,       \* the error WriteConfig or LoadConfig returned
    \* ---- init command ----------------------------------------------------
    initPc,       \* position of the init command
    initMode,     \* its --mode flag
    \* ---- doctor command --------------------------------------------------
    dpc,          \* position of the doctor command
    docOutput,    \* its --output flag
    docEnv,       \* the workstation: kubectl on the PATH, state of the kubeconfig
    checks,       \* results.Checks
    docPrinted,   \* the checks written to stdout
    \* ---- a verify run against fixed API objects --------------------------
    hpaAnswer,    \* the API server's answer to the Get of the demo HPA
    netpolAnswer, \* its answer to the List of the demo network policies
    \* ---- uninstall command -----------------------------------------------
    upc,          \* position of the uninstall command
    force,        \* its --force flag
    answer,       \* the line the operator types at the prompt, as its words
    response,     \* the variable fmt.Scanln filled at the confirmation prompt
    deleteLog     \* namespace deletes Uninstall issued, with their errors

shared == <<cfgFile, config, exitErr, cluster, pollTick, pollClosed>>

ivars == <<flagMode, ipc, installErr, applyLog, clusterReqs, fs, rendered,
           waitResult, observed, nsOutcome, runs, prevOk>>

vvars == <<vpc, vi, results, summary, invoked, ppc, initialReplicas,
           podName, depErr, createErr, probeCalls, report, printed>>

pvars == <<pollInterval, pollTimeout, pollCond, pollBaseline, pollPc, pollEvals,
           pollSleeps, pollErrs, pollElapsed, pollLast, pollResult>>

ovars == <<cpc, cfgObj, yamlFile, loaded, cfgErr, initPc, initMode, dpc, docOutput,
           docEnv, checks, docPrinted>>

avars == <<hpaAnswer, netpolAnswer>>

uvars == <<upc, force, answer, response, deleteLog>>

xvars == <<avars, uvars>>

vars == <<shared, ivars, vvars, pvars, ovars, xvars>>

----------------------------------------------------------------------------
\* Bounds of the model
MaxRuns == 2          \* install runs against the same cluster
NumManifests == 2     \* yaml files in a bundle directory
MaxReady == 2         \* replicas of an observed deployment
MaxTests == 2         \* entries of verify.tests
MaxPods == 2          \* demo pods in the cluster

\* Program constants
PollInterval == 5         \* seconds
KyvernoTimeout == 120     \* seconds
SelfHealTimeout == 60     \* seconds

nil == <<>>

\* fmt.Errorf(prefix + ": %w", err)
Wrap(prefix, err) == <<prefix>> \o err

----------------------------------------------------------------------------
\* The cluster API server (Remote State Accessor), as client-go reports it.

\* Error of a Create for an object that exists: apimachinery's StatusError
\* with reason AlreadyExists; its Error() is the status message.
AlreadyExistsErr(resource, name) ==
    IF resource = "namespaces" /\ name = "kubac-system"
    THEN <<"namespaces \"kubac-system\" already exists">>
    ELSE <<"object already exists">>

\* A request that does not reach the API server, or is refused by it.
ConnErr == <<"connection refused">>

\* Answers to Namespaces().Create(name): [reason, err, created].
CreateNamespaceResponses(name) ==
    IF name \in cluster.namespaces
    THEN { [reason |-> "AlreadyExists", err |-> AlreadyExistsErr("namespaces", name)],
           [reason |-> "Unavailable", err |-> ConnErr] }
    ELSE { [reason |-> "Created", err |-> nil],
           [reason |-> "Unavailable", err |-> ConnErr] }

\* Answers to Deployments(ns).Get(name): an error, or the deployment's
\* status.readyReplicas and spec.replicas.
GetDeploymentResponses ==
    { [err |-> ConnErr, ready |-> 0, replicas |-> 1] } \cup
    { [err |-> nil, ready |-> r, replicas |-> n] :
          r \in 0..MaxReady, n \in 1..MaxReady }

----------------------------------------------------------------------------
\* wait.PollImmediate(interval, timeout, condition): the condition is
\* evaluated at once, then on every tick of the interval ticker; when the
\* timeout timer fires the channel is closed, the condition is evaluated a
\* last time and ErrWaitTimeout is returned.  The tick that falls on the
\* timeout races with the timer.

PollTicks(interval, timeout) == timeout \div interval

ErrWaitTimeout == <<"timed out waiting for the condition">>

\* Mutant of PollNext: the timer fires one tick late.
PollNextLate(tick, n) ==
    IF tick < n + 1 THEN { <<tick + 1, FALSE>> } ELSE { <<tick, TRUE>> }

\* The <<tick, closed>> pairs the poller can be in at its next evaluation.
PollNext(tick, n) ==
    IF tick + 1 < n THEN { <<tick + 1, FALSE>> }
    ELSE IF tick + 1 = n THEN { <<n, FALSE>>, <<n, TRUE>> }
    ELSE { <<tick, TRUE>> }

----------------------------------------------------------------------------
\* Configuration (internal/config/config.go)

Modes == {"direct", "gitops"}

\* DefaultConfig(profile, mode), with the fields the commands read.
DefaultConfig(mode) ==
    [ Mode |-> mode,
      GitOpsPath |-> "clusters/my-cluster",
      MetricsServer |-> TRUE,
      KubeStateMetrics |-> TRUE,
      Policy |-> TRUE,
      NetworkPolicy |-> TRUE,
      DemoNamespace |-> "kubac-demo",
      HPAMinReplicas |-> 2,
      HPAMaxReplicas |-> 10,
      VerifyTimeout |-> "300s",
      Parallel |-> TRUE,
      Tests |-> <<"pod-selfheal", "hpa-scale", "policy-deny", "network-deny">> ]

\* The configurations an install run is started with.
InstallConfigs ==
    { [DefaultConfig(m) EXCEPT !.MetricsServer = ms, !.KubeStateMetrics = ksm,
                               !.Policy = pol, !.NetworkPolicy = np,
                               !.GitOpsPath = gp] :
        m \in Modes, ms \in BOOLEAN, ksm \in BOOLEAN, pol \in BOOLEAN,
        np \in BOOLEAN, gp \in {"", "clusters/prod"} }

----------------------------------------------------------------------------
\* Installer (internal/install/installer.go)

isAlreadyExists(err) == err # nil /\ err = <<"already exists">>

\* The --mode flag overrides the configured mode when it is not empty.
EffectiveMode(cfgMode, flag) == IF flag # "" THEN flag ELSE cfgMode

\* Mutant of SelectInstall: the direct steps run whatever the mode, and the
\* rendering follows them in gitops mode.
SelectInstallBoth(mode) == "metrics-server"

\* Install's dispatch on the mode: where the run continues after the
\* namespace step.
SelectInstall(mode) == IF mode = "gitops" THEN "gitops" ELSE "metrics-server"

\* What one applyManifests call can meet: the directory cannot be read;
\* or n manifests are applied and then (n < NumManifests) the next one
\* cannot be read ("read") or is refused by the API server ("apply").
ApplyOutcomes ==
    { [readDir |-> FALSE, n |-> 0, failAt |-> "readDir"] } \cup
    { [readDir |-> TRUE, n |-> k, failAt |-> f] :
          k \in 0..(NumManifests - 1), f \in {"read", "apply"} } \cup
    { [readDir |-> TRUE, n |-> NumManifests, failAt |-> "none"] }

applyManifestsErr(out) ==
    CASE out.failAt = "readDir" -> <<"failed to read manifests directory">>
      [] out.failAt = "read"    -> <<"failed to read manifest">>
      [] out.failAt = "apply"   -> Wrap("failed to apply manifest", ConnErr)
      [] OTHER                  -> nil

\* The apply requests an applyManifests call sends, in order.
applyManifestsReqs(path, out) ==
    [ j \in 1..(IF out.failAt = "apply" THEN out.n + 1 ELSE out.n) |->
          <<"apply", path, j>> ]

\* The manifests of the bundle that took effect on the cluster.
applyManifestsEffect(path, out) == { <<path, j>> : j \in 1..out.n }

\* Mutant of AfterStep: a failed step does not stop the sequence.
AfterStepContinue(err, next) == next

\* Where installDirect goes after a step returned err.
AfterStep(err, next) == IF err # nil THEN "done" ELSE next

\* The command's RunE wraps the error of Install.
RunEErr(err) == IF err # nil THEN Wrap("installation failed", err) ELSE nil

\* if enabled { if err := applyManifests(path); err != nil { return wrap } }
Step(pc, enabled, path, prefix, next) ==
    /\ ipc = pc
    /\ IF enabled
       THEN \E out \in ApplyOutcomes :
              LET err == applyManifestsErr(out) IN
              /\ applyLog' = Append(applyLog, path)
              /\ clusterReqs' = clusterReqs \o applyManifestsReqs(path, out)
              /\ cluster' = [cluster EXCEPT
                    !.applied = @ \cup applyManifestsEffect(path, out)]
              /\ ipc' = AfterStep(err, next)
              /\ installErr' = IF err # nil THEN Wrap(prefix, err) ELSE installErr
              /\ exitErr' = IF err # nil THEN RunEErr(Wrap(prefix, err)) ELSE exitErr
       ELSE /\ ipc' = next
            /\ UNCHANGED <<applyLog, clusterReqs, cluster, installErr, exitErr>>
    /\ UNCHANGED <<cfgFile, config, pollTick, pollClosed, flagMode, fs, rendered,
                   waitResult, observed, nsOutcome, runs, prevOk>>
    /\ UNCHANGED <<vvars, pvars, ovars, xvars>>

\* RunE of the install command up to installer.Install(): load the config,
\* apply the flag overrides, build the installer.
InstallCommand ==
    /\ ipc = "cmd"
    /\ \E ok \in {"ok", "failed to load config", "failed to create installer"} :
         IF ok = "ok"
         THEN /\ config' = [cfgFile EXCEPT !.Mode = EffectiveMode(cfgFile.Mode, flagMode)]
              /\ ipc' = "createNamespace"
              /\ UNCHANGED exitErr
         ELSE /\ exitErr' = <<ok>>
              /\ ipc' = "done"
              /\ UNCHANGED config
    /\ UNCHANGED <<cfgFile, cluster, pollTick, pollClosed, flagMode, installErr,
                   applyLog, clusterReqs, fs, rendered, waitResult, observed,
                   nsOutcome, runs, prevOk>>
    /\ UNCHANGED <<vvars, pvars, ovars, xvars>>

\* Install: createNamespace("kubac-system"), then the dispatch on the mode.
createNamespace ==
    /\ ipc = "createNamespace"
    /\ \E resp \in CreateNamespaceResponses("kubac-system") :
         /\ clusterReqs' = Append(clusterReqs, <<"create", "namespaces", "kubac-system">>)
         /\ nsOutcome' = resp.reason
         /\ cluster' = IF resp.reason = "Created"
                       THEN [cluster EXCEPT !.namespaces = @ \cup {"kubac-system"}]
                       ELSE cluster
         /\ IF resp.err # nil /\ ~isAlreadyExists(resp.err)
            THEN /\ installErr' = resp.err
                 /\ exitErr' = RunEErr(resp.err)
                 /\ ipc' = "done"
            ELSE /\ ipc' = SelectInstall(config.Mode)
                 /\ UNCHANGED <<installErr, exitErr>>
    /\ UNCHANGED <<cfgFile, config, pollTick, pollClosed, flagMode, applyLog, fs,
                   rendered, waitResult, observed, runs, prevOk>>
    /\ UNCHANGED <<vvars, pvars, ovars, xvars>>

MetricsServerPath == "bundles/platform/metrics-server"
KubeStateMetricsPath == "bundles/platform/kube-state-metrics"
KyvernoPath == "bundles/policies/kyverno"
BaselinePath == "bundles/policies/baseline"
NetpolPath == "bundles/netpol"

installMetricsServer ==
    Step("metrics-server", config.MetricsServer, MetricsServerPath,
         "failed to install metrics-server", "kube-state-metrics")

installKubeStateMetrics ==
    Step("kube-state-metrics", config.KubeStateMetrics, KubeStateMetricsPath,
         "failed to install kube-state-metrics", "kyverno")

\* Policy block, first part: the Kyverno manifests.  With the policy engine
\* disabled the whole block (install, wait, baseline) is skipped.
installKyverno ==
    /\ Step("kyverno", config.Policy, KyvernoPath, "failed to install kyverno",
            IF config.Policy THEN "wait" ELSE "netpol")

\* The condition of waitForDeployment: a failed Get is "not yet".
DeploymentReady(resp) == resp.err = nil /\ resp.ready = resp.replicas

\* Mutant of AfterWait: a readiness timeout does not stop the sequence.
AfterWaitIgnore(err) == "baseline"

\* Where installDirect goes when the wait returned err.
AfterWait(err) == IF err # nil THEN "done" ELSE "baseline"

\* One evaluation of the polled condition of waitForDeployment("kyverno").
waitForDeployment ==
    /\ ipc = "wait"
    /\ \E resp \in GetDeploymentResponses :
         /\ observed' = resp
         /\ IF DeploymentReady(resp)
            THEN /\ waitResult' = "ready"
                 /\ ipc' = AfterWait(nil)
                 /\ pollTick' = 0 /\ pollClosed' = FALSE
                 /\ UNCHANGED <<installErr, exitErr>>
            ELSE IF pollClosed
            THEN /\ waitResult' = "timeout"
                 /\ ipc' = AfterWait(ErrWaitTimeout)
                 /\ installErr' = Wrap("kyverno not ready", ErrWaitTimeout)
                 /\ exitErr' = RunEErr(Wrap("kyverno not ready", ErrWaitTimeout))
                 /\ pollTick' = 0 /\ pollClosed' = FALSE
            ELSE /\ \E nx \in PollNext(pollTick, PollTicks(PollInterval, KyvernoTimeout)) :
                      pollTick' = nx[1] /\ pollClosed' = nx[2]
                 /\ UNCHANGED <<waitResult, ipc, installErr, exitErr>>
    /\ UNCHANGED <<cfgFile, config, cluster, flagMode, applyLog, clusterReqs, fs,
                   rendered, nsOutcome, runs, prevOk>>
    /\ UNCHANGED <<vvars, pvars, ovars, xvars>>

applyBaselinePolicies ==
    Step("baseline", TRUE, BaselinePath, "failed to apply policies", "netpol")

\* Mutant of installNetworkPolicies: the step ignores its enabled flag.
installNetworkPoliciesAlways ==
    Step("netpol", TRUE, NetpolPath, "failed to install network policies", "done")

installNetworkPolicies ==
    Step("netpol", config.NetworkPolicy, NetpolPath,
         "failed to install network policies", "done")

\* installGitOps and render.RenderGitOpsManifests

DefaultGitOpsPath == "clusters/my-cluster"

GitOpsPath(cfg) == IF cfg.GitOpsPath = "" THEN DefaultGitOpsPath ELSE cfg.GitOpsPath

\* The directories installGitOps creates, in order (filepath.Join as a
\* sequence of path elements).
GitOpsDirs(gp) ==
    << <<gp, "flux-system">>, <<gp, "platform">>, <<gp, "policies">>,
       <<gp, "netpol">>, <<gp, "apps">> >>

\* The files RenderGitOpsManifests writes, in order.
GitOpsFiles(gp) ==
    << <<gp, "flux-system", "gotk-components.yaml">>,
       <<gp, "flux-system", "gotk-sync.yaml">>,
       <<gp, "platform-kustomization.yaml">>,
       <<gp, "policies-kustomization.yaml">> >>

Range(seq) == { seq[k] : k \in 1..Len(seq) }

Prefix(seq, n) == [ k \in 1..n |-> seq[k] ]

\* os.MkdirAll also creates the missing parents.
MkdirAllEffect(dirs) == dirs \cup (IF dirs = {} THEN {} ELSE { <<d[1]>> : d \in dirs })

\* d directories are created before a MkdirAll fails (all of them when
\* d = Len(dirs)); then f files are written before a WriteFile fails.
installGitOps ==
    /\ ipc = "gitops"
    /\ LET gp == GitOpsPath(config)
           dirs == GitOpsDirs(gp)
           files == GitOpsFiles(gp)
       IN \E d \in 0..Len(dirs), f \in 0..Len(files) :
            /\ d < Len(dirs) => f = 0
            /\ LET made == MkdirAllEffect(Range(Prefix(dirs, d))) \cup Range(Prefix(files, f))
                   err == IF d < Len(dirs) THEN Wrap("failed to create directory", <<"mkdir failed">>)
                          ELSE IF f < Len(files)
                          THEN Wrap("failed to render GitOps manifests", <<"write failed">>)
                          ELSE nil
               IN /\ fs' = fs \cup made
                  /\ rendered' = rendered \cup made
                  /\ installErr' = err
                  /\ exitErr' = RunEErr(err)
                  /\ ipc' = "done"
    /\ UNCHANGED <<cfgFile, config, cluster, pollTick, pollClosed, flagMode, applyLog,
                   clusterReqs, waitResult, observed, nsOutcome, runs, prevOk>>
    /\ UNCHANGED <<vvars, pvars, ovars, xvars>>

NoObservation == [err |-> <<"not observed">>, ready |-> 0, replicas |-> 1]

\* The operator runs the same install command again on the same cluster.
Rerun ==
    /\ ipc = "done"
    /\ runs < MaxRuns
    /\ runs' = runs + 1
    /\ prevOk' = (exitErr = nil)
    /\ ipc' = "cmd"
    /\ config' = cfgFile
    /\ installErr' = nil
    /\ exitErr' = nil
    /\ applyLog' = <<>>
    /\ clusterReqs' = <<>>
    /\ rendered' = {}
    /\ waitResult' = "none"
    /\ observed' = NoObservation
    /\ nsOutcome' = "none"
    /\ UNCHANGED <<cfgFile, cluster, pollTick, pollClosed, flagMode, fs>>
    /\ UNCHANGED <<vvars, pvars, ovars, xvars>>

NoPod == <<>>

NoReport == [tests |-> <<>>, summary |-> [Total |-> -1, Passed |-> -1, Failed |-> -1]]

NoFile == <<"no such file or directory">>

NoConfig == <<"nil">>

NoEnv == [kubectl |-> FALSE, kubeconfig |-> "none"]

\* Position of the init command: the statement, and the index of the
\* directory its loop is at.
InitAt(at, dir) == [at |-> at, dir |-> dir]

\* No fixed API answers are in use and the uninstall command is not running.
ExtrasIdle ==
    /\ hpaAnswer = [err |-> nil, minSet |-> FALSE, min |-> 0, max |-> 0, current |-> 0]
    /\ netpolAnswer = [err |-> nil, items |-> <<>>]
    /\ upc = "none"
    /\ force = FALSE
    /\ answer = <<>>
    /\ response = ""
    /\ deleteLog = <<>>

\* No config round trip, init command or doctor command is running.
OthersIdle ==
    /\ cpc = "none"
    /\ cfgObj = NoConfig
    /\ yamlFile = NoFile
    /\ loaded = NoConfig
    /\ cfgErr = nil
    /\ initPc = InitAt("none", 0)
    /\ initMode = ""
    /\ dpc = "none"
    /\ docOutput = ""
    /\ docEnv = NoEnv
    /\ checks = <<>>
    /\ docPrinted = <<>>

\* No call of the poller is followed on its own.
PollIdle ==
    /\ pollInterval = PollInterval
    /\ pollTimeout = 0
    /\ pollCond = "none"
    /\ pollBaseline = 0
    /\ pollPc = "none"
    /\ pollEvals = 0
    /\ pollSleeps = 0
    /\ pollErrs = 0
    /\ pollElapsed = 0
    /\ pollLast = NoObservation
    /\ pollResult = "none"

\* The verify command has not been started.
VerifyIdle ==
    /\ vpc = "cmd"
    /\ vi = 1
    /\ results = <<>>
    /\ summary = [Total |-> 0, Passed |-> 0, Failed |-> 0]
    /\ invoked = <<>>
    /\ ppc = "idle"
    /\ initialReplicas = 0
    /\ podName = NoPod
    /\ depErr = nil
    /\ createErr = nil
    /\ probeCalls = 0
    /\ report = NoReport
    /\ printed = NoReport

InitInstall ==
    /\ ExtrasIdle
    /\ VerifyIdle
    /\ PollIdle
    /\ OthersIdle
    /\ cfgFile \in InstallConfigs
    /\ config = cfgFile
    /\ flagMode \in {""} \cup Modes
    /\ exitErr = nil
    /\ cluster = [namespaces |-> {}, applied |-> {}, pods |-> <<>>, want |-> 0,
                  nextPod |-> 1, testPod |-> FALSE, ready |-> 0, healthy |-> TRUE]
    /\ pollTick = 0
    /\ pollClosed = FALSE
    /\ ipc = "cmd"
    /\ installErr = nil
    /\ applyLog = <<>>
    /\ clusterReqs = <<>>
    /\ fs = {}
    /\ rendered = {}
    /\ waitResult = "none"
    /\ observed = NoObservation
    /\ nsOutcome = "none"
    /\ runs = 1
    /\ prevOk = FALSE

NextInstall ==
    \/ InstallCommand
    \/ createNamespace
    \/ installMetricsServer
    \/ installKubeStateMetrics
    \/ installKyverno
    \/ waitForDeployment
    \/ applyBaselinePolicies
    \/ installNetworkPolicies
    \/ installGitOps
    \/ Rerun

SpecInstall == InitInstall /\ [][NextInstall]_vars

----------------------------------------------------------------------------
\* Verifier (verify package) and the verify command (internal/cli/verify.go)

TestNames == {"pod-selfheal", "hpa-scale", "policy-deny", "network-deny", "etcd-backup"}

SeqsUpTo(S, n) == UNION { [1..k -> S] : k \in 0..n }

\* The configurations a verify run is started with: any list of test names.
VerifyConfigs ==
    { [DefaultConfig("direct") EXCEPT !.Tests = ts] : ts \in SeqsUpTo(TestNames, MaxTests) }

Msg(text, args) == [text |-> text, args |-> args]

TestResult(name, status, message) ==
    [Name |-> name, Status |-> status, Message |-> message]

\* The switch of RunAll: the probe function a test name selects.
ProbeOf(testName) ==
    CASE testName = "pod-selfheal" -> "testPodSelfHeal"
      [] testName = "hpa-scale"    -> "testHPAScale"
      [] testName = "policy-deny"  -> "testPolicyDeny"
      [] testName = "network-deny" -> "testNetworkDeny"
      [] OTHER                     -> "default"

\* Mutant of DefaultResult: an unknown test name is a failure.
DefaultResultFail(testName) == TestResult(testName, "FAIL", Msg("Unknown test", <<>>))

\* The default case of the switch.
DefaultResult(testName) == TestResult(testName, "SKIP", Msg("Unknown test", <<>>))

\* Mutant of NextIndex: the loop stops at the first FAIL.
NextIndexStopOnFail(i, result, n) == IF result.Status = "FAIL" THEN n + 1 ELSE i + 1

\* The range loop of RunAll: the index after the iteration that produced
\* result, in a list of n entries.
NextIndex(i, result, n) == i + 1

\* Answers to HorizontalPodAutoscalers(ns).Get("demo").
GetHPAResponses(cfg) ==
    { [err |-> <<"not found">>, minSet |-> FALSE, min |-> 0, max |-> 0, current |-> 0],
      [err |-> ConnErr, minSet |-> FALSE, min |-> 0, max |-> 0, current |-> 0] } \cup
    { [err |-> nil, minSet |-> ms, min |-> mn, max |-> mx, current |-> mn] :
          ms \in BOOLEAN,
          mn \in {cfg.HPAMinReplicas, cfg.HPAMinReplicas + 1},
          mx \in {cfg.HPAMaxReplicas, cfg.HPAMaxReplicas - 1} }

\* Mutant of testHPAScale: maxReplicas is not compared.
testHPAScaleMinOnly(resp, cfg) ==
    IF resp.err # nil
    THEN TestResult("hpa-scale", "SKIP", Msg("HPA not found", resp.err))
    ELSE IF ~resp.minSet \/ resp.min # cfg.HPAMinReplicas
    THEN TestResult("hpa-scale", "FAIL", Msg("HPA minReplicas mismatch", <<>>))
    ELSE TestResult("hpa-scale", "PASS",
                    Msg("HPA configured correctly", <<resp.current, resp.min, resp.max>>))

\* testHPAScale after its Get: the int32 conversions of the configured
\* bounds keep the value of every replica count below 2^31.
testHPAScale(resp, cfg) ==
    IF resp.err # nil
    THEN TestResult("hpa-scale", "SKIP", Msg("HPA not found", resp.err))
    ELSE IF ~resp.minSet \/ resp.min # cfg.HPAMinReplicas
    THEN TestResult("hpa-scale", "FAIL", Msg("HPA minReplicas mismatch", <<>>))
    ELSE IF resp.max # cfg.HPAMaxReplicas
    THEN TestResult("hpa-scale", "FAIL", Msg("HPA maxReplicas mismatch", <<>>))
    ELSE TestResult("hpa-scale", "PASS",
                    Msg("HPA configured correctly", <<resp.current, resp.min, resp.max>>))

\* Answers to NetworkPolicies(ns).List(): an error, or the policies with the
\* lengths of their ingress and egress rule lists.
ListNetpolResponses ==
    { [err |-> ConnErr, items |-> <<>>] } \cup
    { [err |-> nil, items |-> it] :
        it \in { <<>>,
                 << [ingress |-> 0, egress |-> 0] >>,
                 << [ingress |-> 1, egress |-> 0] >>,
                 << [ingress |-> 0, egress |-> 1] >>,
                 << [ingress |-> 1, egress |-> 1], [ingress |-> 0, egress |-> 0] >> } }

\* Mutant of testNetworkDeny: policies without a default deny are a failure.
testNetworkDenyStrict(resp) ==
    IF resp.err # nil
    THEN TestResult("network-deny", "SKIP", Msg("Cannot list network policies", resp.err))
    ELSE IF Len(resp.items) = 0
    THEN TestResult("network-deny", "FAIL", Msg("No network policies found", <<>>))
    ELSE IF ~(\E k \in 1..Len(resp.items) :
                 resp.items[k].ingress = 0 /\ resp.items[k].egress = 0)
    THEN TestResult("network-deny", "FAIL",
                    Msg("network policies but no default deny", <<Len(resp.items)>>))
    ELSE TestResult("network-deny", "PASS",
                    Msg("Network policies configured", <<Len(resp.items)>>))

testNetworkDeny(resp) ==
    IF resp.err # nil
    THEN TestResult("network-deny", "SKIP", Msg("Cannot list network policies", resp.err))
    ELSE IF Len(resp.items) = 0
    THEN TestResult("network-deny", "FAIL", Msg("No network policies found", <<>>))
    ELSE IF ~(\E k \in 1..Len(resp.items) :
                 resp.items[k].ingress = 0 /\ resp.items[k].egress = 0)
    THEN TestResult("network-deny", "WARN",
                    Msg("network policies but no default deny", <<Len(resp.items)>>))
    ELSE TestResult("network-deny", "PASS",
                    Msg("Network policies configured", <<Len(resp.items)>>))

\* Error of a Create that the policy engine's admission webhook rejected.
DeniedErr == <<"admission webhook denied the request">>

\* Answers to Pods(ns).Create(test-privileged-pod).
CreatePodResponses ==
    { [reason |-> "Denied", err |-> DeniedErr],
      [reason |-> "Unavailable", err |-> ConnErr] } \cup
    (IF cluster.testPod
     THEN { [reason |-> "AlreadyExists", err |-> AlreadyExistsErr("pods", "test-privileged-pod")] }
     ELSE { [reason |-> "Created", err |-> nil] })

\* Mutant of SummaryOf: WARN results are counted as failed.
RECURSIVE SummaryWarnFails(_)
SummaryWarnFails(tests) ==
    IF tests = <<>> THEN [Total |-> 0, Passed |-> 0, Failed |-> 0]
    ELSE LET rest == SummaryWarnFails(Prefix(tests, Len(tests) - 1))
             test == tests[Len(tests)]
         IN [Total |-> Len(tests),
             Passed |-> rest.Passed + (IF test.Status = "PASS" THEN 1 ELSE 0),
             Failed |-> rest.Failed + (IF test.Status \in {"FAIL", "WARN"} THEN 1 ELSE 0)]

\* "Calculate summary": Total is len(results.Tests); the loop over the tests
\* increments Passed for PASS, else Failed for FAIL.
RECURSIVE SummaryOf(_)
SummaryOf(tests) ==
    IF tests = <<>> THEN [Total |-> 0, Passed |-> 0, Failed |-> 0]
    ELSE LET rest == SummaryOf(Prefix(tests, Len(tests) - 1))
             test == tests[Len(tests)]
         IN [Total |-> Len(tests),
             Passed |-> IF test.Status = "PASS" THEN rest.Passed + 1 ELSE rest.Passed,
             Failed |-> IF test.Status = "PASS" THEN rest.Failed
                        ELSE IF test.Status = "FAIL" THEN rest.Failed + 1
                        ELSE rest.Failed]

\* Mutant of AllPassed: every test must have passed.
AllPassedStrict(sum) == sum.Passed = sum.Total

\* VerificationResults.AllPassed
AllPassed(sum) == sum.Failed = 0

\* Mutant of AfterRunAll: the command checks AllPassed before it writes the
\* report.
AfterRunAllFailFast(sum) == IF sum.Failed # 0 THEN "exit" ELSE "write"

\* The verify command after RunAll returned: the report is written next.
AfterRunAll(sum) == "write"

DefaultReportPath == "kubac-verify-report.json"

\* if reportPath == "" { reportPath = "kubac-verify-report.json" }
ReportPath(flag) == IF flag = "" THEN DefaultReportPath ELSE flag

\* WriteReport writes the file if format == "json" || path != "".
WritesFile(path, format) == format = "json" \/ path # ""

ReportOf(tests, sum) == [tests |-> tests, summary |-> sum]

\* RunE of the verify command up to verifier.RunAll(); RunAll starts with an
\* empty result list.
VerifyCommand ==
    /\ vpc = "cmd"
    /\ \E ok \in {"ok", "failed to load config", "failed to create verifier"} :
         IF ok = "ok"
         THEN /\ config' = cfgFile
              /\ vpc' = "run"
              /\ UNCHANGED exitErr
         ELSE /\ exitErr' = <<ok>>
              /\ vpc' = "done"
              /\ UNCHANGED config
    /\ vi' = 1
    /\ results' = <<>>
    /\ UNCHANGED <<cfgFile, cluster, pollTick, pollClosed, summary, invoked,
                   ppc, initialReplicas, podName, depErr, createErr, probeCalls, report, printed>>
    /\ UNCHANGED <<ivars, pvars, ovars, xvars>>

\* Mutant of MayStartProbe: with verify.parallel set, the loop goes on to
\* start a probe while the previous one is still polling.
MayStartProbeParallel(parallel, pc) == parallel \/ pc = "idle"

\* The loop body of RunAll calls the probe function and waits for its
\* result: a probe starts only when none is running, whatever verify.parallel
\* says (the field is never read).
MayStartProbe(parallel, pc) == pc = "idle"

\* A loop iteration of RunAll is about to run the probe function fn.
AtProbe(fn) ==
    /\ vpc = "run"
    /\ MayStartProbe(config.Parallel, ppc)
    /\ vi <= Len(config.Tests)
    /\ ProbeOf(config.Tests[vi]) = fn

\* The end of a loop iteration: the result is appended to results.Tests.
Finish(result) ==
    /\ results' = Append(results, result)
    /\ vi' = NextIndex(vi, result, Len(config.Tests))

\* case "hpa-scale": one Get, no mutation; answers are the answers the API
\* server may give to the Get.
HPAScaleWith(answers) ==
    /\ AtProbe("testHPAScale")
    /\ invoked' = Append(invoked, "testHPAScale")
    /\ \E resp \in answers : Finish(testHPAScale(resp, config))
    /\ probeCalls' = 1
    /\ UNCHANGED <<cfgFile, config, exitErr, cluster, pollTick, pollClosed, vpc,
                   summary, ppc, initialReplicas, podName, depErr, createErr, report, printed>>
    /\ UNCHANGED <<ivars, pvars, ovars, xvars>>

\* hpa-scale in a run against a cluster in any state.
RunHPAScale == HPAScaleWith(GetHPAResponses(config))

\* hpa-scale in a run against a cluster whose answer to the Get is fixed.
FixedHPAScale == HPAScaleWith({hpaAnswer})

\* case "network-deny": one List, no mutation; answers are the answers the
\* API server may give to the List.
NetworkDenyWith(answers) ==
    /\ AtProbe("testNetworkDeny")
    /\ invoked' = Append(invoked, "testNetworkDeny")
    /\ \E resp \in answers : Finish(testNetworkDeny(resp))
    /\ probeCalls' = 1
    /\ UNCHANGED <<cfgFile, config, exitErr, cluster, pollTick, pollClosed, vpc,
                   summary, ppc, initialReplicas, podName, depErr, createErr, report, printed>>
    /\ UNCHANGED <<ivars, pvars, ovars, xvars>>

\* network-deny in a run against a cluster in any state.
RunNetworkDeny == NetworkDenyWith(ListNetpolResponses)

\* network-deny in a run against a cluster whose answer to the List is fixed.
FixedNetworkDeny == NetworkDenyWith({netpolAnswer})

\* Mutant of PodCreated: testPolicyDeny takes every answer as a rejection.
PodCreatedNever(err) == FALSE

\* testPolicyDeny's test of the Create's result: err == nil.
PodCreated(err) == err = nil

\* case "policy-deny": create the privileged pod; if the create succeeded,
\* delete it (the delete's error is ignored) and FAIL, else PASS.
RunPolicyDeny ==
    /\ AtProbe("testPolicyDeny")
    /\ invoked' = Append(invoked, "testPolicyDeny")
    /\ \E resp \in CreatePodResponses :
         /\ createErr' = resp.err
         /\ IF PodCreated(resp.err)
            THEN /\ \E deleted \in BOOLEAN :
                      cluster' = [cluster EXCEPT !.testPod = ~deleted]
                 /\ probeCalls' = 2
                 /\ Finish(TestResult("policy-deny", "FAIL",
                                      Msg("Privileged pod was not denied by policy", <<>>)))
            ELSE /\ UNCHANGED cluster
                 /\ probeCalls' = 1
                 /\ Finish(TestResult("policy-deny", "PASS",
                                      Msg("Privileged pod was correctly denied by policy", <<>>)))
    /\ UNCHANGED <<cfgFile, config, exitErr, pollTick, pollClosed, vpc,
                   summary, ppc, initialReplicas, podName, depErr, report, printed>>
    /\ UNCHANGED <<ivars, pvars, ovars, xvars>>

\* default: an unknown test name.
RunUnknown ==
    /\ AtProbe("default")
    /\ invoked' = Append(invoked, "default")
    /\ Finish(DefaultResult(config.Tests[vi]))
    /\ probeCalls' = 0
    /\ UNCHANGED <<cfgFile, config, exitErr, cluster, pollTick, pollClosed, vpc,
                   summary, ppc, initialReplicas, podName, depErr, createErr, report, printed>>
    /\ UNCHANGED <<ivars, pvars, ovars, xvars>>

\* Answers to Deployments(demo namespace).Get("demo"): an error, or the
\* deployment with the status.readyReplicas its controller last wrote.
GetDemoResponses(c) ==
    { [err |-> ConnErr, ready |-> 0, replicas |-> 1],
      [err |-> nil, ready |-> c.ready, replicas |-> c.want] }

\* Answers to Pods(ns).List(app=demo): an error, or the demo pods.
ListPodsResponses ==
    { [err |-> ConnErr, items |-> <<>>], [err |-> nil, items |-> cluster.pods] }

\* Mutant of DemoNotDeployed: a deployment that cannot be read is a failure.
DemoNotDeployedFail(err) ==
    TestResult("pod-selfheal", "FAIL", Msg("Demo app not deployed", err))

\* testPodSelfHeal's result when the Get of the demo deployment fails.
DemoNotDeployed(err) ==
    TestResult("pod-selfheal", "SKIP", Msg("Demo app not deployed", err))

\* case "pod-selfheal", up to the start of the poll: get the deployment,
\* list the pods, delete the first one.
RunPodSelfHeal ==
    /\ AtProbe("testPodSelfHeal")
    /\ invoked' = Append(invoked, "testPodSelfHeal")
    /\ \E dep \in GetDemoResponses(cluster), pods \in ListPodsResponses, deleted \in BOOLEAN :
         /\ depErr' = dep.err
         /\ IF dep.err # nil
            THEN /\ Finish(DemoNotDeployed(dep.err))
                 /\ probeCalls' = 1
                 /\ UNCHANGED <<cluster, ppc, initialReplicas, podName, pollTick, pollClosed>>
            ELSE IF pods.err # nil \/ Len(pods.items) = 0
            THEN /\ Finish(TestResult("pod-selfheal", "FAIL", Msg("No demo pods found", <<>>)))
                 /\ probeCalls' = 2
                 /\ UNCHANGED <<cluster, ppc, initialReplicas, podName, pollTick, pollClosed>>
            ELSE IF ~deleted
            THEN /\ Finish(TestResult("pod-selfheal", "FAIL", Msg("Failed to delete pod", ConnErr)))
                 /\ probeCalls' = 3
                 /\ UNCHANGED <<cluster, ppc, initialReplicas, podName, pollTick, pollClosed>>
            ELSE /\ initialReplicas' = dep.ready
                 /\ podName' = pods.items[1]
                 /\ cluster' = [cluster EXCEPT !.pods = Tail(@)]
                 /\ probeCalls' = 3
                 /\ ppc' = "poll"
                 /\ pollTick' = 0
                 /\ pollClosed' = FALSE
                 /\ UNCHANGED <<results, vi>>
    /\ UNCHANGED <<cfgFile, config, exitErr, vpc, summary, createErr, report, printed>>
    /\ UNCHANGED <<ivars, pvars, ovars, xvars>>

\* The demo pods that are ready: all of them, or none when the pods of the
\* deployment never pass their readiness probe.
PodsReady(c) == IF c.healthy THEN Len(c.pods) ELSE 0

\* The deployment controller wrote the status of the deployment.
StatusSynced(c) == [c EXCEPT !.ready = PodsReady(c)]

\* The deployment controller started a pod for a missing replica.
Replaced(c) ==
    IF Len(c.pods) < c.want
    THEN [c EXCEPT !.pods = Append(@, <<"demo", c.nextPod>>), !.nextPod = @ + 1]
    ELSE c

\* What the deployment controller may have done between two requests: the
\* replacement pod and the status update each come with a delay.
Reconciled(c) ==
    { c, StatusSynced(c), Replaced(c), StatusSynced(Replaced(c)) }

\* Mutant of SelfHealed: the ready count has to exceed the baseline.
SelfHealedAbove(resp, baseline) == resp.err = nil /\ resp.ready > baseline

\* The polled condition of testPodSelfHeal: a failed Get is "not yet".
SelfHealed(resp, baseline) == resp.err = nil /\ resp.ready >= baseline

\* One evaluation of the polled condition of testPodSelfHeal.
PollPodSelfHeal ==
    /\ vpc = "run"
    /\ ppc = "poll"
    /\ cluster' \in Reconciled(cluster)
    /\ probeCalls' = probeCalls + 1
    /\ \E resp \in GetDemoResponses(cluster') :
         /\ depErr' = resp.err
         /\ IF SelfHealed(resp, initialReplicas)
            THEN /\ Finish(TestResult("pod-selfheal", "PASS",
                                      Msg("Pod was replaced successfully", podName)))
                 /\ ppc' = "idle" /\ initialReplicas' = 0 /\ podName' = NoPod
                 /\ pollTick' = 0 /\ pollClosed' = FALSE
            ELSE IF pollClosed
            THEN /\ Finish(TestResult("pod-selfheal", "FAIL",
                                      Msg("Pod was not replaced within timeout", <<>>)))
                 /\ ppc' = "idle" /\ initialReplicas' = 0 /\ podName' = NoPod
                 /\ pollTick' = 0 /\ pollClosed' = FALSE
            ELSE /\ \E nx \in PollNext(pollTick, PollTicks(PollInterval, SelfHealTimeout)) :
                      pollTick' = nx[1] /\ pollClosed' = nx[2]
                 /\ UNCHANGED <<results, vi, ppc, initialReplicas, podName>>
    /\ UNCHANGED <<cfgFile, config, exitErr, vpc, summary, invoked, createErr, report,
                   printed>>
    /\ UNCHANGED <<ivars, pvars, ovars, xvars>>

\* The loop of RunAll is over: the summary is calculated and RunAll returns.
RunAllReturn ==
    /\ vpc = "run"
    /\ ppc = "idle"
    /\ vi > Len(config.Tests)
    /\ summary' = SummaryOf(results)
    /\ vpc' = AfterRunAll(summary')
    /\ UNCHANGED <<cfgFile, config, exitErr, cluster, pollTick, pollClosed, vi,
                   results, invoked, ppc, initialReplicas, podName, depErr, createErr, probeCalls, report,
                   printed>>
    /\ UNCHANGED <<ivars, pvars, ovars, xvars>>

\* The values of the --output and --report flags of the verify command.
OutputFlags == {"text", "json"}
ReportFlags == {"", "out/report.json"}

\* results.WriteReport(reportPath, output) with the flags the command was
\* given; an error ends the command.
WriteReport ==
    /\ vpc = "write"
    /\ \E output \in OutputFlags, flag \in ReportFlags :
         IF WritesFile(ReportPath(flag), output)
         THEN \E ok \in BOOLEAN :
                IF ok
                THEN /\ report' = ReportOf(results, summary)
                     /\ vpc' = "print"
                     /\ UNCHANGED exitErr
                ELSE /\ exitErr' = Wrap("failed to write report", <<"write failed">>)
                     /\ vpc' = "done"
                     /\ UNCHANGED report
         ELSE /\ vpc' = "print"
              /\ UNCHANGED <<report, exitErr>>
    /\ UNCHANGED <<cfgFile, config, cluster, pollTick, pollClosed, vi, results,
                   summary, invoked, ppc, initialReplicas, podName, depErr, createErr, probeCalls, printed>>
    /\ UNCHANGED <<ivars, pvars, ovars, xvars>>

\* results.PrintSummary(os.Stdout)
PrintSummary ==
    /\ vpc = "print"
    /\ printed' = ReportOf(results, summary)
    /\ vpc' = "exit"
    /\ UNCHANGED <<cfgFile, config, exitErr, cluster, pollTick, pollClosed, vi,
                   results, summary, invoked, ppc, initialReplicas, podName, depErr, createErr, probeCalls,
                   report>>
    /\ UNCHANGED <<ivars, pvars, ovars, xvars>>

\* if !results.AllPassed() { return error }; return nil
VerifyExit ==
    /\ vpc = "exit"
    /\ exitErr' = IF ~AllPassed(summary) THEN <<"some verification tests failed">> ELSE nil
    /\ vpc' = "done"
    /\ UNCHANGED <<cfgFile, config, cluster, pollTick, pollClosed, vi, results,
                   summary, invoked, ppc, initialReplicas, podName, depErr, createErr, probeCalls, report,
                   printed>>
    /\ UNCHANGED <<ivars, pvars, ovars, xvars>>

\* The install command has not been started.
InstallIdle ==
    /\ flagMode = ""
    /\ ipc = "cmd"
    /\ installErr = nil
    /\ applyLog = <<>>
    /\ clusterReqs = <<>>
    /\ fs = {}
    /\ rendered = {}
    /\ waitResult = "none"
    /\ observed = NoObservation
    /\ nsOutcome = "none"
    /\ runs = 1
    /\ prevOk = FALSE

InitVerify ==
    /\ ExtrasIdle
    /\ InstallIdle
    /\ PollIdle
    /\ OthersIdle
    /\ cfgFile \in VerifyConfigs
    /\ config = cfgFile
    /\ exitErr = nil
    /\ \E n \in 0..MaxPods, h \in BOOLEAN :
         /\ n = 0 => h
         /\ cluster = [namespaces |-> {"kubac-system"}, applied |-> {},
                       pods |-> [k \in 1..n |-> <<"demo", k>>], want |-> n,
                       nextPod |-> n + 1, testPod |-> FALSE,
                       ready |-> IF h THEN n ELSE 0, healthy |-> h]
    /\ pollTick = 0
    /\ pollClosed = FALSE
    /\ vpc = "cmd"
    /\ vi = 1
    /\ results = <<>>
    /\ summary = [Total |-> 0, Passed |-> 0, Failed |-> 0]
    /\ invoked = <<>>
    /\ ppc = "idle"
    /\ initialReplicas = 0
    /\ podName = NoPod
    /\ depErr = nil
    /\ createErr = nil
    /\ probeCalls = 0
    /\ report = NoReport
    /\ printed = NoReport

NextVerify ==
    \/ VerifyCommand
    \/ RunPodSelfHeal
    \/ PollPodSelfHeal
    \/ RunHPAScale
    \/ RunPolicyDeny
    \/ RunNetworkDeny
    \/ RunUnknown
    \/ RunAllReturn
    \/ WriteReport
    \/ PrintSummary
    \/ VerifyExit

SpecVerify == InitVerify /\ [][NextVerify]_vars

\* A verify run with verify.parallel set either way, against a cluster with
\* one demo pod that is replaced or never becomes ready.
InitParallel ==
    /\ ExtrasIdle
    /\ InstallIdle
    /\ PollIdle
    /\ OthersIdle
    /\ VerifyIdle
    /\ \E c \in VerifyConfigs, par \in BOOLEAN : cfgFile = [c EXCEPT !.Parallel = par]
    /\ config = cfgFile
    /\ exitErr = nil
    /\ \E h \in BOOLEAN :
         cluster = [namespaces |-> {"kubac-system"}, applied |-> {},
                    pods |-> << <<"demo", 1>> >>, want |-> 1, nextPod |-> 2,
                    testPod |-> FALSE, ready |-> IF h THEN 1 ELSE 0, healthy |-> h]
    /\ pollTick = 0
    /\ pollClosed = FALSE

SpecParallel == InitParallel /\ [][NextVerify]_vars

\* The configurations of a verify run of the two read-only probes, with the
\* expected HPA bounds of the default configuration or lower ones.
ProbeConfigs ==
    { [DefaultConfig("direct") EXCEPT !.Tests = ts, !.HPAMinReplicas = mn,
                                      !.HPAMaxReplicas = mx] :
        ts \in SeqsUpTo({"hpa-scale", "network-deny"}, MaxTests),
        mn \in {1, 2}, mx \in {3, 10} }

\* A verify run of the read-only probes against a cluster whose HPA and
\* network policies (or the error of reading them) do not change during the
\* run.
InitProbe ==
    /\ InstallIdle
    /\ PollIdle
    /\ OthersIdle
    /\ VerifyIdle
    /\ cfgFile \in ProbeConfigs
    /\ config = cfgFile
    /\ exitErr = nil
    /\ cluster = [namespaces |-> {"kubac-system"}, applied |-> {}, pods |-> <<>>,
                  want |-> 0, nextPod |-> 1, testPod |-> FALSE, ready |-> 0,
                  healthy |-> TRUE]
    /\ pollTick = 0
    /\ pollClosed = FALSE
    /\ hpaAnswer \in GetHPAResponses(cfgFile)
    /\ netpolAnswer \in ListNetpolResponses
    /\ upc = "none"
    /\ force = FALSE
    /\ answer = <<>>
    /\ response = ""
    /\ deleteLog = <<>>

NextProbe ==
    \/ VerifyCommand
    \/ FixedHPAScale
    \/ FixedNetworkDeny
    \/ RunAllReturn
    \/ WriteReport
    \/ PrintSummary
    \/ VerifyExit

SpecProbe == InitProbe /\ [][NextProbe]_vars

----------------------------------------------------------------------------
\* One call of the condition poller, wait.PollImmediate(interval, timeout,
\* condition), followed on its own with the condition closures of
\* waitForDeployment and testPodSelfHeal over every interval and timeout of
\* a bounded range.  Time is counted in seconds since the call.

MaxInterval == 2      \* largest interval of a followed call
MaxTimeout == 4       \* largest timeout of a followed call
MaxEvals == 4         \* evaluations followed of a call that has no timer

PollCallers == {"waitForDeployment", "testPodSelfHeal"}

\* Mutant of PollCondition: a failed Get is returned as the closure's error.
PollConditionAbort(caller, resp, baseline) ==
    [done |-> FALSE, err |-> resp.err]

\* The closure handed to the poller, as (done, err): both callers answer a
\* failed Get with (false, nil) and never return an error.
PollCondition(caller, resp, baseline) ==
    [done |-> IF caller = "waitForDeployment"
              THEN DeploymentReady(resp)
              ELSE SelfHealed(resp, baseline),
     err |-> nil]

\* Mutant of Immediate: the first evaluation waits for the first tick.
ImmediateAfterTick == FALSE

\* PollImmediate evaluates the condition before it waits on the channel.
Immediate == TRUE

\* The poller's channel: a timeout of 0 starts no timer, so the channel is
\* never closed.
PollAdvance(tick, interval, timeout) ==
    IF timeout = 0 THEN { <<tick + 1, FALSE>> }
    ELSE PollNext(tick, PollTicks(interval, timeout))

\* When the channel delivers: tick k at k intervals, the close at the timeout.
PollTime(tick, closed, interval, timeout) ==
    IF closed THEN timeout ELSE tick * interval

\* One evaluation of the condition and what poll does with its answer.
PollEvaluate(resp, closed) ==
    LET c == PollCondition(pollCond, resp, pollBaseline) IN
    /\ pollLast' = resp
    /\ pollEvals' = pollEvals + 1
    /\ pollErrs' = pollErrs + (IF resp.err # nil THEN 1 ELSE 0)
    /\ IF c.err # nil THEN pollPc' = "done" /\ pollResult' = "error"
       ELSE IF c.done THEN pollPc' = "done" /\ pollResult' = "ok"
       ELSE IF closed THEN pollPc' = "done" /\ pollResult' = "timeout"
       ELSE pollPc' = "wait" /\ pollResult' = "none"

\* The call: the immediate evaluation.
PollStart ==
    /\ pollPc = "start"
    /\ IF Immediate
       THEN \E resp \in GetDeploymentResponses : PollEvaluate(resp, FALSE)
       ELSE /\ pollPc' = "wait"
            /\ UNCHANGED <<pollLast, pollEvals, pollErrs, pollResult>>
    /\ pollElapsed' = 0
    /\ UNCHANGED <<pollInterval, pollTimeout, pollCond, pollBaseline, pollSleeps>>
    /\ UNCHANGED <<shared, ivars, vvars, ovars, xvars>>

\* The poll waits on the channel, then evaluates the condition again.
PollWait ==
    /\ pollPc = "wait"
    /\ pollTimeout # 0 \/ pollEvals < MaxEvals
    /\ \E nx \in PollAdvance(pollTick, pollInterval, pollTimeout),
          resp \in GetDeploymentResponses :
         /\ pollTick' = nx[1]
         /\ pollClosed' = nx[2]
         /\ pollElapsed' = PollTime(nx[1], nx[2], pollInterval, pollTimeout)
         /\ PollEvaluate(resp, nx[2])
    /\ pollSleeps' = pollSleeps + 1
    /\ UNCHANGED <<pollInterval, pollTimeout, pollCond, pollBaseline>>
    /\ UNCHANGED <<cfgFile, config, exitErr, cluster>>
    /\ UNCHANGED <<ivars, vvars, ovars, xvars>>

InitPoll ==
    /\ ExtrasIdle
    /\ InstallIdle
    /\ VerifyIdle
    /\ OthersIdle
    /\ cfgFile = DefaultConfig("direct")
    /\ config = cfgFile
    /\ exitErr = nil
    /\ cluster = [namespaces |-> {"kubac-system"}, applied |-> {}, pods |-> <<>>,
                  want |-> 0, nextPod |-> 1, testPod |-> FALSE, ready |-> 0,
                  healthy |-> TRUE]
    /\ pollTick = 0
    /\ pollClosed = FALSE
    /\ pollInterval \in 1..MaxInterval
    /\ pollTimeout \in 0..MaxTimeout
    /\ pollCond \in PollCallers
    /\ pollBaseline \in (IF pollCond = "testPodSelfHeal" THEN 0..MaxReady ELSE {0})
    /\ pollPc = "start"
    /\ pollEvals = 0
    /\ pollSleeps = 0
    /\ pollErrs = 0
    /\ pollElapsed = 0
    /\ pollLast = NoObservation
    /\ pollResult = "none"

NextPoll ==
    \/ PollStart
    \/ PollWait

SpecPoll == InitPoll /\ [][NextPoll]_vars

\* The ticker and the timer of a call keep firing.
SpecPollFair == SpecPoll /\ WF_vars(NextPoll)

----------------------------------------------------------------------------
\* WriteConfig and LoadConfig (internal/config/config.go): a *Config goes to
\* the file through yaml.Marshal and comes back through yaml.Unmarshal.
\* Strings are sequences of characters here; a YAML scalar is a style
\* ("plain" or "quoted") and its text.

MaxIntValue == 11     \* largest value drawn for an int field

Digit == <<"0", "1", "2", "3", "4", "5", "6", "7", "8", "9">>

DigitChars == Range(Digit)

\* strconv-style decimal text of an integer, as yaml.Marshal writes it.
RECURSIVE ItoaNat(_)
ItoaNat(n) ==
    IF n < 10 THEN << Digit[n + 1] >>
    ELSE ItoaNat(n \div 10) \o << Digit[(n % 10) + 1] >>

Itoa(n) == IF n < 0 THEN <<"-">> \o ItoaNat(-n) ELSE ItoaNat(n)

DigitValue(c) == CHOOSE d \in 0..9 : Digit[d + 1] = c

RECURSIVE AtoiNat(_)
AtoiNat(text) ==
    IF text = <<>> THEN 0
    ELSE 10 * AtoiNat(Prefix(text, Len(text) - 1)) + DigitValue(text[Len(text)])

\* The integer a decimal text stands for.
Atoi(text) ==
    IF text[1] = "-" THEN -AtoiNat(Tail(text))
    ELSE IF text[1] = "+" THEN AtoiNat(Tail(text))
    ELSE AtoiNat(text)

NullTexts == { <<>>, <<"~">>, <<"n", "u", "l", "l">> }

TrueText == <<"t", "r", "u", "e">>

FalseText == <<"f", "a", "l", "s", "e">>

IsInt(text) ==
    LET ds == IF text # <<>> /\ text[1] \in {"-", "+"} THEN Tail(text) ELSE text
    IN ds # <<>> /\ \A k \in 1..Len(ds) : ds[k] \in DigitChars

\* The type an untagged plain scalar resolves to.
Resolve(text) ==
    IF text \in NullTexts THEN "null"
    ELSE IF text \in {TrueText, FalseText} THEN "bool"
    ELSE IF IsInt(text) THEN "int"
    ELSE "str"

\* Texts the YAML 1.1 readers take as booleans; the encoder quotes them.
OldBoolTexts == { <<"n", "o">>, <<"y", "e", "s">>, <<"o", "n">>, <<"o", "f", "f">> }

\* The text cannot stand as a plain scalar: it would lose its blanks, open a
\* comment or a mapping.
HasIndicator(text) ==
    /\ text # <<>>
    /\ \/ text[1] \in {" ", "#"}
       \/ text[Len(text)] = " "
       \/ \E k \in 1..(Len(text) - 1) : text[k] = ":" /\ text[k + 1] = " "

\* Mutant of NeedsQuote: every string is written as a plain scalar.
NeedsQuoteNever(text) == FALSE

\* The encoder quotes a string unless it is safe as a plain scalar.
NeedsQuote(text) ==
    Resolve(text) # "str" \/ text \in OldBoolTexts \/ HasIndicator(text)

EncodeString(text) ==
    [style |-> IF NeedsQuote(text) THEN "quoted" ELSE "plain", text |-> text]

EncodeInt(n) == [style |-> "plain", text |-> Itoa(n)]

EncodeBool(b) == [style |-> "plain", text |-> IF b THEN TrueText ELSE FalseText]

RECURSIVE TrimBlanks(_)
TrimBlanks(text) ==
    IF text # <<>> /\ text[1] = " " THEN TrimBlanks(Tail(text))
    ELSE IF text # <<>> /\ text[Len(text)] = " "
    THEN TrimBlanks(Prefix(text, Len(text) - 1))
    ELSE text

\* What the parser reads from the text of a plain scalar: blanks around it
\* are dropped, a leading # starts a comment, "key: value" is a mapping.
ScanPlain(text) ==
    LET t == TrimBlanks(text) IN
    IF t # <<>> /\ t[1] = "#" THEN [kind |-> "scalar", text |-> <<>>]
    ELSE IF \E k \in 1..(Len(t) - 1) : t[k] = ":" /\ t[k + 1] = " "
    THEN [kind |-> "mapping", text |-> t]
    ELSE [kind |-> "scalar", text |-> t]

TypeError == <<"yaml: unmarshal errors">>

\* Unmarshal of a scalar into a string, int or bool field: [err, value].
DecodeString(sc) ==
    IF sc.style = "quoted" THEN [err |-> nil, value |-> sc.text]
    ELSE LET n == ScanPlain(sc.text) IN
         IF n.kind = "mapping" THEN [err |-> TypeError, value |-> <<>>]
         ELSE IF Resolve(n.text) = "null" THEN [err |-> nil, value |-> <<>>]
         ELSE [err |-> nil, value |-> n.text]

DecodeInt(sc) ==
    IF sc.style = "plain" /\ Resolve(sc.text) = "int"
    THEN [err |-> nil, value |-> Atoi(sc.text)]
    ELSE IF sc.style = "plain" /\ Resolve(sc.text) = "null"
    THEN [err |-> nil, value |-> 0]
    ELSE [err |-> TypeError, value |-> 0]

DecodeBool(sc) ==
    IF sc.style = "plain" /\ Resolve(sc.text) = "bool"
    THEN [err |-> nil, value |-> sc.text = TrueText]
    ELSE IF sc.style = "plain" /\ Resolve(sc.text) = "null"
    THEN [err |-> nil, value |-> FALSE]
    ELSE [err |-> TypeError, value |-> FALSE]

\* Fields of Config, by their yaml path, one or more of every top-level
\* section, with their Go type.
StringFields == {"clusterProfile", "mode", "gitops.repoURL", "policy.version",
                 "demo.namespace", "verify.timeout"}

IntFields == {"demo.replicas", "demo.hpa.maxReplicas"}

BoolFields == {"platform.metricsServer.enabled", "networkPolicy.defaultDeny",
               "autoscaling.hpa.enabled", "verify.parallel"}

ConfigFields == StringFields \cup IntFields \cup BoolFields

\* yaml.Marshal(cfg): the document, a scalar for every field.
Marshal(cfg) ==
    [f \in ConfigFields |->
        IF f \in StringFields THEN EncodeString(cfg[f])
        ELSE IF f \in IntFields THEN EncodeInt(cfg[f])
        ELSE EncodeBool(cfg[f])]

DecodeField(f, sc) ==
    IF f \in StringFields THEN DecodeString(sc)
    ELSE IF f \in IntFields THEN DecodeInt(sc)
    ELSE DecodeBool(sc)

\* yaml.Unmarshal(data, &cfg): [err, cfg].
Unmarshal(doc) ==
    IF \E f \in ConfigFields : DecodeField(f, doc[f]).err # nil
    THEN [err |-> TypeError, cfg |-> NoConfig]
    ELSE [err |-> nil, cfg |-> [f \in ConfigFields |-> DecodeField(f, doc[f]).value]]

\* Values of the string fields that are varied.
StringValues ==
    { <<>>, <<"l", "o", "c", "a", "l">>, <<"n", "u", "l", "l">>, <<"~">>,
      TrueText, <<"n", "o">>, <<"1", "2">>, <<"-", "3">>, <<" ", "a">>,
      <<"a", " ">>, <<"#", "a">>, <<"a", ":", " ", "b">>, <<"a", ":", "b">>,
      <<"v", "1", ".", "1">>, <<"3", "0", "0", "s">> }

\* DefaultConfig(profile, mode), as character sequences.
DefaultConfigText ==
    [f \in ConfigFields |->
        CASE f = "clusterProfile" -> <<"l", "o", "c", "a", "l">>
          [] f = "mode" -> <<"d", "i", "r", "e", "c", "t">>
          [] f = "gitops.repoURL" -> <<>>
          [] f = "policy.version" -> <<"v", "1", ".", "1", "1", ".", "4">>
          [] f = "demo.namespace" -> <<"k", "u", "b", "a", "c", "-", "d", "e", "m", "o">>
          [] f = "verify.timeout" -> <<"3", "0", "0", "s">>
          [] f = "demo.replicas" -> 2
          [] f = "demo.hpa.maxReplicas" -> 10
          [] f = "platform.metricsServer.enabled" -> TRUE
          [] f = "networkPolicy.defaultDeny" -> TRUE
          [] f = "autoscaling.hpa.enabled" -> TRUE
          [] f = "verify.parallel" -> TRUE]

\* The configuration objects written: the default with a string, an int and
\* a bool field of different sections set to other values.
RoundTripConfigs ==
    { [DefaultConfigText EXCEPT !["clusterProfile"] = sv, !["demo.namespace"] = ns,
                                !["demo.replicas"] = n, !["verify.parallel"] = b] :
        sv \in StringValues,
        ns \in {<<"t", "e", "s", "t">>, <<"n", "u", "l", "l">>},
        n \in -1..MaxIntValue,
        b \in BOOLEAN }

\* os.WriteFile can fail on the path.
WriteFileErrors == { nil, <<"permission denied">> }

\* WriteConfig(path, cfg)
WriteConfig ==
    /\ cpc = "write"
    /\ \E werr \in WriteFileErrors :
         IF werr # nil
         THEN /\ cfgErr' = Wrap("failed to write config file", werr)
              /\ cpc' = "done"
              /\ UNCHANGED yamlFile
         ELSE /\ yamlFile' = Marshal(cfgObj)
              /\ cpc' = "load"
              /\ UNCHANGED cfgErr
    /\ UNCHANGED <<cfgObj, loaded, initPc, initMode, dpc, docOutput, docEnv, checks, docPrinted>>
    /\ UNCHANGED <<shared, ivars, vvars, pvars, xvars>>

\* LoadConfig(path)
LoadConfig ==
    /\ cpc = "load"
    /\ cpc' = "done"
    /\ IF yamlFile = NoFile
       THEN /\ cfgErr' = Wrap("failed to read config file", NoFile)
            /\ UNCHANGED loaded
       ELSE LET r == Unmarshal(yamlFile) IN
            IF r.err # nil
            THEN /\ cfgErr' = Wrap("failed to parse config file", r.err)
                 /\ UNCHANGED loaded
            ELSE /\ loaded' = r.cfg
                 /\ UNCHANGED cfgErr
    /\ UNCHANGED <<cfgObj, yamlFile, initPc, initMode, dpc, docOutput, docEnv, checks, docPrinted>>
    /\ UNCHANGED <<shared, ivars, vvars, pvars, xvars>>

\* The shared variables when neither install nor verify runs.
SharedIdle ==
    /\ cfgFile = DefaultConfig("direct")
    /\ config = cfgFile
    /\ exitErr = nil
    /\ cluster = [namespaces |-> {"kubac-system"}, applied |-> {}, pods |-> <<>>,
                  want |-> 0, nextPod |-> 1, testPod |-> FALSE, ready |-> 0,
                  healthy |-> TRUE]
    /\ pollTick = 0
    /\ pollClosed = FALSE

InitConfig ==
    /\ ExtrasIdle
    /\ SharedIdle
    /\ InstallIdle
    /\ VerifyIdle
    /\ PollIdle
    /\ cpc \in {"write", "load"}
    /\ cfgObj \in RoundTripConfigs
    /\ yamlFile = NoFile
    /\ loaded = NoConfig
    /\ cfgErr = nil
    /\ initPc = InitAt("none", 0)
    /\ initMode = ""
    /\ dpc = "none"
    /\ docOutput = ""
    /\ docEnv = NoEnv
    /\ checks = <<>>
    /\ docPrinted = <<>>

NextConfig ==
    \/ WriteConfig
    \/ LoadConfig

SpecConfig == InitConfig /\ [][NextConfig]_vars

----------------------------------------------------------------------------
\* kubac init (NewInitCommand)

ConfigFileName == <<"kubac.yaml">>

\* The directories init creates in gitops mode, in order.
InitDirs(gp) ==
    << <<gp>>, <<gp, "flux-system">>, <<gp, "platform">>, <<gp, "policies">>,
       <<gp, "apps">> >>

\* Values of the --mode flag: any string is accepted.
InitModes == Modes \cup {"helm"}

\* Paths that may exist in the working directory before init runs.
PreExisting ==
    { ConfigFileName, <<DefaultGitOpsPath>>, <<DefaultGitOpsPath, "flux-system">>,
      <<DefaultGitOpsPath, "apps">> }

InitUnchanged ==
    /\ UNCHANGED <<config, cluster, pollTick, pollClosed>>
    /\ UNCHANGED <<flagMode, ipc, installErr, applyLog, clusterReqs, waitResult,
                   observed, nsOutcome, runs, prevOk>>
    /\ UNCHANGED <<cpc, cfgObj, yamlFile, loaded, cfgErr, initMode, dpc, docOutput,
                   docEnv, checks, docPrinted>>
    /\ UNCHANGED <<vvars, pvars, xvars>>

\* Mutant of ConfigExists: init does not look for an existing file.
ConfigExistsNever(files) == FALSE

\* _, err := os.Stat("kubac.yaml"); err == nil
ConfigExists(files) == ConfigFileName \in files

\* os.Stat("kubac.yaml"): init refuses to overwrite an existing file.
InitStat ==
    /\ initPc.at = "stat"
    /\ IF ConfigExists(fs)
       THEN /\ exitErr' = <<"kubac.yaml already exists, refusing to overwrite">>
            /\ initPc' = InitAt("done", 0)
       ELSE /\ initPc' = InitAt("write", 0)
            /\ UNCHANGED exitErr
    /\ UNCHANGED <<cfgFile, fs, rendered>>
    /\ InitUnchanged

\* config.WriteConfig("kubac.yaml", config.DefaultConfig(clusterProfile, mode))
InitWriteConfig ==
    /\ initPc.at = "write"
    /\ \E werr \in WriteFileErrors :
         IF werr # nil
         THEN /\ exitErr' = Wrap("failed to write kubac.yaml",
                                 Wrap("failed to write config file", werr))
              /\ initPc' = InitAt("done", 0)
              /\ UNCHANGED <<cfgFile, fs, rendered>>
         ELSE /\ cfgFile' = DefaultConfig(initMode)
              /\ fs' = fs \cup {ConfigFileName}
              /\ rendered' = rendered \cup {ConfigFileName}
              /\ initPc' = IF initMode = "gitops" THEN InitAt("mkdir", 1)
                           ELSE InitAt("done", 0)
              /\ UNCHANGED exitErr
    /\ InitUnchanged

\* One iteration of the loop over dirs: os.MkdirAll(dir, 0755).
InitMkdir ==
    /\ initPc.at = "mkdir"
    /\ LET dirs == InitDirs(GitOpsPath(cfgFile))
           dir == dirs[initPc.dir]
       IN \E ok \in BOOLEAN :
            IF ok
            THEN /\ fs' = fs \cup MkdirAllEffect({dir})
                 /\ rendered' = rendered \cup MkdirAllEffect({dir})
                 /\ initPc' = IF initPc.dir < Len(dirs)
                              THEN InitAt("mkdir", initPc.dir + 1)
                              ELSE InitAt("done", 0)
                 /\ UNCHANGED exitErr
            ELSE /\ exitErr' = Wrap("failed to create directory", <<"mkdir failed">>)
                 /\ initPc' = InitAt("done", 0)
                 /\ UNCHANGED <<fs, rendered>>
    /\ UNCHANGED cfgFile
    /\ InitUnchanged

InitInit ==
    /\ ExtrasIdle
    /\ VerifyIdle
    /\ PollIdle
    /\ fs \in SUBSET PreExisting
    /\ cfgFile = IF ConfigFileName \in fs THEN DefaultConfig("direct") ELSE NoConfig
    /\ config = NoConfig
    /\ exitErr = nil
    /\ cluster = [namespaces |-> {}, applied |-> {}, pods |-> <<>>, want |-> 0,
                  nextPod |-> 1, testPod |-> FALSE, ready |-> 0, healthy |-> TRUE]
    /\ pollTick = 0
    /\ pollClosed = FALSE
    /\ flagMode = ""
    /\ ipc = "cmd"
    /\ installErr = nil
    /\ applyLog = <<>>
    /\ clusterReqs = <<>>
    /\ rendered = {}
    /\ waitResult = "none"
    /\ observed = NoObservation
    /\ nsOutcome = "none"
    /\ runs = 1
    /\ prevOk = FALSE
    /\ cpc = "none"
    /\ cfgObj = NoConfig
    /\ yamlFile = NoFile
    /\ loaded = NoConfig
    /\ cfgErr = nil
    /\ initPc = InitAt("stat", 0)
    /\ initMode \in InitModes
    /\ dpc = "none"
    /\ docOutput = ""
    /\ docEnv = NoEnv
    /\ checks = <<>>
    /\ docPrinted = <<>>

NextInit ==
    \/ InitStat
    \/ InitWriteConfig
    \/ InitMkdir

SpecInit == InitInit /\ [][NextInit]_vars

----------------------------------------------------------------------------
\* kubac doctor (NewDoctorCommand, internal/doctor)

CheckResult(name, status, message) ==
    [Name |-> name, Status |-> status, Message |-> message]

\* The workstation the command runs on: kubectl, and a kubeconfig that
\* loads ("ok"), does not load ("bad") or gives no usable client ("badclient").
DoctorEnvs ==
    { [kubectl |-> k, kubeconfig |-> c] :
        k \in BOOLEAN, c \in {"ok", "bad", "badclient"} }

checkKubectlResult(env) ==
    IF ~env.kubectl
    THEN CheckResult("kubectl", "FAIL", Msg("kubectl not found or not executable", <<>>))
    ELSE CheckResult("kubectl", "PASS", Msg("kubectl version output", <<>>))

\* listErr: error of Namespaces().List; rawErr: error of RawConfig().
checkClusterAccessResult(env, listErr, rawErr) ==
    IF env.kubeconfig = "bad"
    THEN CheckResult("cluster-access", "FAIL", Msg("Failed to load kubeconfig", <<>>))
    ELSE IF env.kubeconfig = "badclient"
    THEN CheckResult("cluster-access", "FAIL", Msg("Failed to create client", <<>>))
    ELSE IF listErr # nil
    THEN CheckResult("cluster-access", "FAIL", Msg("Failed to connect to cluster", listErr))
    ELSE IF rawErr # nil
    THEN CheckResult("cluster-access", "WARN",
                     Msg("Connected but cannot determine context", <<>>))
    ELSE CheckResult("cluster-access", "PASS", Msg("Connected to context", <<>>))

checkPermissionsResult(env, listErr) ==
    IF env.kubeconfig = "bad"
    THEN CheckResult("permissions", "SKIP", Msg("Skipped due to cluster access failure", <<>>))
    ELSE IF env.kubeconfig = "badclient"
    THEN CheckResult("permissions", "SKIP",
                     Msg("Skipped due to client creation failure", <<>>))
    ELSE IF listErr # nil
    THEN CheckResult("permissions", "FAIL",
                     Msg("Insufficient permissions to list namespaces", <<>>))
    ELSE CheckResult("permissions", "PASS",
                     Msg("User has required cluster permissions", <<>>))

MaxNodes == 2         \* nodes of the cluster

checkNodesResult(env, listErr, nodes, readyNodes) ==
    IF env.kubeconfig = "bad"
    THEN CheckResult("nodes", "SKIP", Msg("Skipped due to cluster access failure", <<>>))
    ELSE IF env.kubeconfig = "badclient"
    THEN CheckResult("nodes", "SKIP", Msg("Skipped due to client creation failure", <<>>))
    ELSE IF listErr # nil
    THEN CheckResult("nodes", "WARN", Msg("Cannot list nodes", listErr))
    ELSE IF readyNodes = 0
    THEN CheckResult("nodes", "FAIL", Msg("No ready nodes found", <<>>))
    ELSE CheckResult("nodes", "PASS", Msg("nodes ready", <<readyNodes, nodes>>))

\* Mutant of ChecksAllPassed: only PASS counts as passed.
RECURSIVE ChecksAllPass(_)
ChecksAllPass(cs) ==
    IF cs = <<>> THEN TRUE
    ELSE IF cs[1].Status # "PASS" THEN FALSE
    ELSE ChecksAllPass(Tail(cs))

\* CheckResults.AllPassed: false at the first check whose status is FAIL.
RECURSIVE ChecksAllPassed(_)
ChecksAllPassed(cs) ==
    IF cs = <<>> THEN TRUE
    ELSE IF cs[1].Status = "FAIL" THEN FALSE
    ELSE ChecksAllPassed(Tail(cs))

ApiErrors == { nil, ConnErr }

DoctorUnchanged ==
    /\ UNCHANGED <<cfgFile, config, cluster, pollTick, pollClosed>>
    /\ UNCHANGED <<cpc, cfgObj, yamlFile, loaded, cfgErr, initPc, initMode, docOutput,
                   docEnv>>
    /\ UNCHANGED <<ivars, vvars, pvars, xvars>>

\* RunChecks appends the results of the four checks, in order.
CheckKubectl ==
    /\ dpc = "kubectl"
    /\ checks' = Append(checks, checkKubectlResult(docEnv))
    /\ dpc' = "cluster-access"
    /\ UNCHANGED <<exitErr, docPrinted>>
    /\ DoctorUnchanged

CheckClusterAccess ==
    /\ dpc = "cluster-access"
    /\ \E listErr \in ApiErrors, rawErr \in { nil, <<"invalid configuration">> } :
         checks' = Append(checks, checkClusterAccessResult(docEnv, listErr, rawErr))
    /\ dpc' = "permissions"
    /\ UNCHANGED <<exitErr, docPrinted>>
    /\ DoctorUnchanged

CheckPermissions ==
    /\ dpc = "permissions"
    /\ \E listErr \in ApiErrors :
         checks' = Append(checks, checkPermissionsResult(docEnv, listErr))
    /\ dpc' = "nodes"
    /\ UNCHANGED <<exitErr, docPrinted>>
    /\ DoctorUnchanged

CheckNodes ==
    /\ dpc = "nodes"
    /\ \E listErr \in ApiErrors, nodes \in 0..MaxNodes :
         \E readyNodes \in 0..nodes :
            checks' = Append(checks, checkNodesResult(docEnv, listErr, nodes, readyNodes))
    /\ dpc' = "print"
    /\ UNCHANGED <<exitErr, docPrinted>>
    /\ DoctorUnchanged

\* The rest of RunE: print the results, then return an error unless
\* AllPassed.  PrintText drops the write errors; an error of PrintJSON is
\* returned before AllPassed is looked at.
DoctorPrintAndExit ==
    /\ dpc = "print"
    /\ dpc' = "done"
    /\ \E werr \in { nil, <<"write /dev/stdout: no space left on device">> } :
         IF docOutput = "json" /\ werr # nil
         THEN /\ exitErr' = Wrap("failed to print JSON", werr)
              /\ UNCHANGED docPrinted
         ELSE /\ docPrinted' = checks
              /\ exitErr' = IF ~ChecksAllPassed(checks)
                            THEN <<"some preflight checks failed">>
                            ELSE nil
    /\ UNCHANGED checks
    /\ DoctorUnchanged

InitDoctor ==
    /\ ExtrasIdle
    /\ SharedIdle
    /\ InstallIdle
    /\ VerifyIdle
    /\ PollIdle
    /\ cpc = "none"
    /\ cfgObj = NoConfig
    /\ yamlFile = NoFile
    /\ loaded = NoConfig
    /\ cfgErr = nil
    /\ initPc = InitAt("none", 0)
    /\ initMode = ""
    /\ dpc = "kubectl"
    /\ docOutput \in OutputFlags
    /\ docEnv \in DoctorEnvs
    /\ checks = <<>>
    /\ docPrinted = <<>>

NextDoctor ==
    \/ CheckKubectl
    \/ CheckClusterAccess
    \/ CheckPermissions
    \/ CheckNodes
    \/ DoctorPrintAndExit

SpecDoctor == InitDoctor /\ [][NextDoctor]_vars

----------------------------------------------------------------------------
\* The uninstall command (internal/cli/uninstall.go) and Installer.Uninstall

isNotFound(err) == err # nil /\ err = <<"not found">>

\* Error of a Delete for a namespace that does not exist: apimachinery's
\* StatusError with reason NotFound; its Error() is the status message.
NotFoundErr(name) == <<"namespaces not found", name>>

\* Answers to Namespaces().Delete(name): [reason, err].
DeleteNamespaceResponses(name) ==
    IF name \in cluster.namespaces
    THEN { [reason |-> "Deleted", err |-> nil],
           [reason |-> "Unavailable", err |-> ConnErr] }
    ELSE { [reason |-> "NotFound", err |-> NotFoundErr(name)],
           [reason |-> "Unavailable", err |-> ConnErr] }

\* namespaces := []string{"kubac-system", "kyverno"}, plus the demo
\* namespace when it is not empty.
UninstallNamespaces(cfg) ==
    <<"kubac-system", "kyverno">> \o
    (IF cfg.DemoNamespace # "" THEN <<cfg.DemoNamespace>> ELSE <<>>)

\* Lines the operator may type at the prompt, as their space-separated
\* words (<<>>: an empty line or end of input).
AnswerLines ==
    { <<>>, <<"yes">>, <<"no">>, <<"y">>, <<"YES">>, <<"yes", "please">>,
      <<"no", "yes">> }

\* var response string; fmt.Scanln(&response): the first space-separated
\* word of the line is stored; the error Scanln returns for an empty line
\* or for further words on the line is discarded.
Scanln(line) == IF line = <<>> THEN "" ELSE line[1]

\* Mutant of Confirmed: "y" confirms as well.
ConfirmedLoose(resp) == resp \in {"yes", "y"}

\* if response != "yes" { cancelled }
Confirmed(resp) == resp = "yes"

\* Mutant of AfterDelete: the loop of Uninstall stops at a failed delete.
AfterDeleteAbort(err, k, n) == IF err # nil \/ k = n THEN "return" ELSE "delete"

\* The loop of Uninstall after the k-th of n deletes returned err: the error
\* is at most printed.
AfterDelete(err, k, n) == IF k = n THEN "return" ELSE "delete"

UninstallUnchanged ==
    /\ UNCHANGED <<cfgFile, pollTick, pollClosed, force, answer>>
    /\ UNCHANGED <<ivars, vvars, pvars, ovars, avars>>

\* RunE of the uninstall command up to the prompt: load the config.
UninstallCommand ==
    /\ upc = "cmd"
    /\ \E ok \in BOOLEAN :
         IF ok
         THEN /\ config' = cfgFile
              /\ upc' = IF force THEN "installer" ELSE "prompt"
              /\ UNCHANGED exitErr
         ELSE /\ exitErr' = Wrap("failed to load config", <<"failed to read config file">>)
              /\ upc' = "done"
              /\ UNCHANGED config
    /\ UNCHANGED <<cluster, response, deleteLog>>
    /\ UninstallUnchanged

\* The confirmation prompt: anything but "yes" cancels with exit code 0.
UninstallPrompt ==
    /\ upc = "prompt"
    /\ response' = Scanln(answer)
    /\ upc' = IF Confirmed(response') THEN "installer" ELSE "done"
    /\ UNCHANGED <<config, exitErr, cluster, deleteLog>>
    /\ UninstallUnchanged

\* install.NewInstaller(cfg)
UninstallNewInstaller ==
    /\ upc = "installer"
    /\ \E ok \in BOOLEAN :
         IF ok
         THEN /\ upc' = "delete"
              /\ UNCHANGED exitErr
         ELSE /\ exitErr' = Wrap("failed to create installer", <<"failed to load kubeconfig">>)
              /\ upc' = "done"
    /\ UNCHANGED <<config, cluster, response, deleteLog>>
    /\ UninstallUnchanged

\* One iteration of the loop of Uninstall: delete the next namespace and
\* print a warning when the delete failed with anything but "not found".
UninstallDelete ==
    /\ upc = "delete"
    /\ LET namespaces == UninstallNamespaces(config)
           k == Len(deleteLog) + 1
           ns == namespaces[k]
       IN \E resp \in DeleteNamespaceResponses(ns) :
            /\ deleteLog' = Append(deleteLog,
                                  [ns |-> ns, err |-> resp.err,
                                   warned |-> resp.err # nil /\ ~isNotFound(resp.err)])
            /\ cluster' = IF resp.reason = "Deleted"
                          THEN [cluster EXCEPT !.namespaces = @ \ {ns}]
                          ELSE cluster
            /\ upc' = AfterDelete(resp.err, k, Len(namespaces))
    /\ UNCHANGED <<config, exitErr, response>>
    /\ UninstallUnchanged

\* Uninstall returns nil and the command ends with exit code 0.
UninstallReturn ==
    /\ upc = "return"
    /\ exitErr' = nil
    /\ upc' = "done"
    /\ UNCHANGED <<config, cluster, response, deleteLog>>
    /\ UninstallUnchanged

\* The configurations uninstall is started with: the default demo namespace
\* or none.
UninstallConfigs ==
    { [DefaultConfig("direct") EXCEPT !.DemoNamespace = ns] : ns \in {"kubac-demo", ""} }

InitUninstall ==
    /\ InstallIdle
    /\ VerifyIdle
    /\ PollIdle
    /\ OthersIdle
    /\ cfgFile \in UninstallConfigs
    /\ config = cfgFile
    /\ exitErr = nil
    /\ \E nss \in SUBSET {"kubac-system", "kyverno", "kubac-demo"} :
         cluster = [namespaces |-> nss, applied |-> {}, pods |-> <<>>, want |-> 0,
                    nextPod |-> 1, testPod |-> FALSE, ready |-> 0, healthy |-> TRUE]
    /\ pollTick = 0
    /\ pollClosed = FALSE
    /\ hpaAnswer = [err |-> nil, minSet |-> FALSE, min |-> 0, max |-> 0, current |-> 0]
    /\ netpolAnswer = [err |-> nil, items |-> <<>>]
    /\ upc = "cmd"
    /\ force \in BOOLEAN
    /\ answer \in AnswerLines
    /\ response = ""
    /\ deleteLog = <<>>

NextUninstall ==
    \/ UninstallCommand
    \/ UninstallPrompt
    \/ UninstallNewInstaller
    \/ UninstallDelete
    \/ UninstallReturn

SpecUninstall == InitUninstall /\ [][NextUninstall]_vars

----------------------------------------------------------------------------
\* Properties of the install sequencer

\* Install itself ran in this run (the command got past loading the config).
InstallRan == nsOutcome # "none"

\* The direct-mode steps a configuration enables, in the documented order.
EnabledSteps(cfg) ==
    (IF cfg.MetricsServer THEN <<MetricsServerPath>> ELSE <<>>) \o
    (IF cfg.KubeStateMetrics THEN <<KubeStateMetricsPath>> ELSE <<>>) \o
    (IF cfg.Policy THEN <<KyvernoPath, BaselinePath>> ELSE <<>>) \o
    (IF cfg.NetworkPolicy THEN <<NetpolPath>> ELSE <<>>)

\* The step an install error names.
StepError(path) ==
    CASE path = MetricsServerPath    -> "failed to install metrics-server"
      [] path = KubeStateMetricsPath -> "failed to install kube-state-metrics"
      [] path = KyvernoPath          -> "failed to install kyverno"
      [] path = BaselinePath         -> "failed to apply policies"
      [] path = NetpolPath           -> "failed to install network policies"

IsPrefix(a, b) == Len(a) <= Len(b) /\ \A k \in 1..Len(a) : a[k] = b[k]

FullyApplied(path) == \A j \in 1..NumManifests : <<path, j>> \in cluster.applied

\* A step action failed in this run: Install returned an error that is
\* neither the namespace step's nor the readiness wait's.
StepActionFailed ==
    /\ ipc = "done" /\ InstallRan /\ config.Mode # "gitops"
    /\ installErr # nil
    /\ applyLog # <<>>
    /\ waitResult # "timeout"

\* C1: in a direct-mode install the steps are invoked in the fixed order
\* metrics-server, kube-state-metrics, Kyverno, baseline policies, network
\* policies; when a step's action fails the run is over, the error names that
\* step, the failed step is the last one invoked (no later step's action is
\* invoked) and every step that succeeded before it is still fully applied.
C1_SequencerAbort ==
    (InstallRan /\ config.Mode # "gitops") =>
        /\ IsPrefix(applyLog, EnabledSteps(config))
        /\ StepActionFailed =>
             /\ installErr[1] = StepError(applyLog[Len(applyLog)])
             /\ exitErr = Wrap("installation failed", installErr)
        /\ \A k \in 1..Len(applyLog) :
             (k < Len(applyLog) \/ (ipc = "done" /\ installErr = nil))
                 => FullyApplied(applyLog[k])

\* The Kyverno step fails after two steps succeeded, with the network
\* policies still to come.
C1_Witness ==
    /\ StepActionFailed
    /\ applyLog = <<MetricsServerPath, KubeStateMetricsPath, KyvernoPath>>
    /\ installErr[1] = "failed to install kyverno"
    /\ config.NetworkPolicy
    /\ FullyApplied(MetricsServerPath) /\ FullyApplied(KubeStateMetricsPath)

\* C2: the baseline policies are applied only after waitForDeployment saw
\* the kyverno deployment with readyReplicas = spec.replicas; when the wait
\* times out (which happens only once the 120s have elapsed) Install returns
\* the error "kyverno not ready" and neither the baseline policies nor the
\* network policies are applied in that run.
C2_ReadinessGate ==
    /\ [](/\ (\E k \in 1..Len(applyLog) : applyLog[k] = BaselinePath)
               => (waitResult = "ready" /\ observed.err = nil
                   /\ observed.ready = observed.replicas)
          /\ waitResult = "timeout"
               => /\ ipc = "done"
                  /\ installErr = Wrap("kyverno not ready", ErrWaitTimeout)
                  /\ exitErr # nil
                  /\ \A k \in 1..Len(applyLog) :
                        applyLog[k] \notin {BaselinePath, NetpolPath})
    /\ [][(waitResult # "timeout" /\ waitResult' = "timeout")
             => (pollClosed /\ pollTick * PollInterval = KyvernoTimeout)]_vars

\* The wait timed out in a run whose network policies are enabled.
C2_Witness ==
    /\ waitResult = "timeout"
    /\ ipc = "done"
    /\ config.NetworkPolicy
    /\ applyLog[Len(applyLog)] = KyvernoPath

\* C3 (as claimed): in gitops mode Install sends no mutating request to the
\* cluster and runs no readiness check.
C3_GitOpsNoClusterMutation ==
    (InstallRan /\ config.Mode = "gitops") =>
        /\ clusterReqs = <<>>
        /\ waitResult = "none"

\* C4: the effective mode (the --mode flag when given, else the configured
\* mode) selects exactly one implementation per run: in gitops mode
\* applyManifests is never called, in direct mode nothing is rendered, and no
\* run does both.
C4_ModeSelectsOne ==
    InstallRan =>
        /\ config.Mode = (IF flagMode # "" THEN flagMode ELSE cfgFile.Mode)
        /\ config.Mode = "gitops" => (applyLog = <<>> /\ waitResult = "none")
        /\ config.Mode = "direct" => (rendered = {} /\ ipc # "gitops")
        /\ ~(applyLog # <<>> /\ rendered # {})

\* The flag overrides a configured direct mode and the manifests are rendered.
C4_Witness ==
    /\ ipc = "done" /\ InstallRan
    /\ cfgFile.Mode = "direct" /\ flagMode = "gitops"
    /\ installErr = nil
    /\ rendered # {}

\* C5 (as claimed): on a cluster where a previous Install succeeded, the
\* AlreadyExists answer to the creation of kubac-system is not an error of
\* the second run.
C5_RerunIdempotent ==
    (runs > 1 /\ prevOk /\ nsOutcome = "AlreadyExists") =>
        installErr # AlreadyExistsErr("namespaces", "kubac-system")

----------------------------------------------------------------------------
\* Properties of the verification run

\* RunAll has returned its results to the verify command.
RunAllReturned ==
    \/ vpc \in {"write", "print", "exit"}
    \/ /\ vpc = "done"
       /\ exitErr \notin {<<"failed to load config">>, <<"failed to create verifier">>}

\* The verify command has returned after a complete RunAll.
VerifyDone == vpc = "done" /\ RunAllReturned

KnownTests == {"pod-selfheal", "hpa-scale", "policy-deny", "network-deny"}

\* The probe function documented for each known test name.
ExpectedProbe ==
    [ n \in KnownTests |->
        CASE n = "pod-selfheal" -> "testPodSelfHeal"
          [] n = "hpa-scale"    -> "testHPAScale"
          [] n = "policy-deny"  -> "testPolicyDeny"
          [] n = "network-deny" -> "testNetworkDeny" ]

NumWithStatus(tests, st) == Cardinality({ k \in 1..Len(tests) : tests[k].Status = st })

\* C6: RunAll calls one probe per entry of verify.tests, in list order and
\* never twice, and appends one result per entry carrying the entry's name;
\* when RunAll has returned, every entry has been run and has its result,
\* whatever the verdicts were.
C6_EveryProbeOnce ==
    /\ Len(invoked) = Len(results) + (IF ppc = "poll" THEN 1 ELSE 0)
    /\ Len(invoked) <= Len(config.Tests)
    /\ \A k \in 1..Len(invoked) :
         IF config.Tests[k] \in KnownTests
         THEN invoked[k] = ExpectedProbe[config.Tests[k]]
         ELSE invoked[k] = "default"
    /\ \A k \in 1..Len(results) : results[k].Name = config.Tests[k]
    /\ RunAllReturned =>
         (Len(results) = Len(config.Tests) /\ Len(invoked) = Len(config.Tests))

\* A FAIL of the first probe is followed by the second probe's PASS.
C6_Witness ==
    /\ RunAllReturned
    /\ Len(results) = 2
    /\ results[1].Status = "FAIL"
    /\ results[2].Status = "PASS"

\* C7: in every report RunAll returns, summary.total is the number of
\* results, summary.failed the number of FAIL results and summary.passed the
\* number of PASS results (WARN and SKIP only count toward the total); for an
\* empty test list total is 0 and AllPassed() is true.
C7_SummaryInvariant ==
    RunAllReturned =>
        /\ summary.Total = Len(results)
        /\ summary.Failed = NumWithStatus(results, "FAIL")
        /\ summary.Passed = NumWithStatus(results, "PASS")
        /\ config.Tests = <<>> => (summary.Total = 0 /\ AllPassed(summary))

\* A report with a WARN and a SKIP result: total 2, nothing passed or failed.
C7_Witness ==
    /\ RunAllReturned
    /\ NumWithStatus(results, "WARN") = 1
    /\ NumWithStatus(results, "SKIP") = 1
    /\ summary = [Total |-> 2, Passed |-> 0, Failed |-> 0]

\* C8 (as claimed): a finished verify run exits non-zero exactly when some
\* probe result is FAIL.
C8_ExitIffFail ==
    VerifyDone => ((exitErr # nil) <=> (NumWithStatus(results, "FAIL") > 0))

\* C8 (amended): a finished verify run exits non-zero exactly when some probe
\* result is FAIL or the report file could not be written; with the report
\* written, WARN and SKIP results never make the exit code non-zero.
C8_ExitCode ==
    VerifyDone =>
        /\ (exitErr # nil) <=> (NumWithStatus(results, "FAIL") > 0 \/ report = NoReport)
        /\ (report # NoReport /\ NumWithStatus(results, "FAIL") = 0) => exitErr = nil

\* A run with a WARN result and no FAIL exits 0.
C8_Witness ==
    /\ VerifyDone
    /\ exitErr = nil
    /\ NumWithStatus(results, "WARN") = 1
    /\ NumWithStatus(results, "PASS") = 1

TestsFailed == <<"some verification tests failed">>

\* C9: when verify signals that probes failed, the report with every probe
\* result and the summary has already been written and the summary printed;
\* a report that exists is complete.
C9_ReportBeforeFailure ==
    /\ []((vpc = "done" /\ exitErr = TestsFailed) =>
             /\ report = ReportOf(results, summary)
             /\ printed = ReportOf(results, summary)
             /\ Len(report.tests) = Len(config.Tests)
             /\ report.summary.Total = Len(config.Tests))
    /\ []((report # NoReport) =>
             (report.tests = results /\ Len(results) = Len(config.Tests)
              /\ report.summary = summary))
    /\ [][(exitErr # TestsFailed /\ exitErr' = TestsFailed)
             => (report # NoReport /\ printed # NoReport)]_vars

\* A run with a FAIL result has ended with its full report written.
C9_Witness ==
    /\ vpc = "done"
    /\ exitErr = TestsFailed
    /\ Len(report.tests) = 2
    /\ report.summary.Failed >= 1
    /\ printed = report

\* C10: a test name outside the four known ones gets exactly one result, with
\* that name and status SKIP; its loop iteration sends no request to the
\* cluster and leaves the cluster unchanged; the run goes on with the
\* remaining tests, and the name never counts as failed.
C10_UnknownIsSkip ==
    /\ [](/\ \A k \in 1..Len(results) :
               config.Tests[k] \notin KnownTests =>
                   (results[k].Name = config.Tests[k] /\ results[k].Status = "SKIP")
          /\ RunAllReturned =>
               /\ Len(results) = Len(config.Tests)
               /\ summary.Failed <=
                    Cardinality({ k \in 1..Len(config.Tests) : config.Tests[k] \in KnownTests }))
    /\ [][(vpc = "run" /\ ppc = "idle" /\ vi <= Len(config.Tests)
           /\ config.Tests[vi] \notin KnownTests)
             => /\ cluster' = cluster
                /\ probeCalls' = 0
                /\ Len(results') = Len(results) + 1
                /\ vi' = vi + 1]_vars

\* An unknown name is skipped and the known test after it still runs.
C10_Witness ==
    /\ RunAllReturned
    /\ config.Tests = <<"etcd-backup", "hpa-scale">>
    /\ results[1].Status = "SKIP"
    /\ results[2].Status = "PASS"

----------------------------------------------------------------------------
\* Properties of the condition poller

\* The condition of the polled caller holds on the last Get answer.
ConditionHolds ==
    IF pollCond = "waitForDeployment"
    THEN DeploymentReady(pollLast)
    ELSE SelfHealed(pollLast, pollBaseline)

\* C11: for every interval > 0 and every timeout >= 0, a timeout shorter
\* than the interval included, the poller evaluates the condition once
\* before it waits at all: a call that has left its start has evaluated the
\* condition, the first evaluation happens at time 0 after no wait, and when
\* the condition holds at that first evaluation the call has returned
\* success, whatever the timeout.
C11_PollImmediate ==
    /\ pollPc \in {"wait", "done"} => pollEvals >= 1
    /\ pollEvals = 0 => pollSleeps = 0
    /\ pollEvals = 1 =>
         /\ pollSleeps = 0
         /\ pollElapsed = 0
         /\ ConditionHolds => pollPc = "done" /\ pollResult = "ok"

\* A call whose timeout is shorter than its interval returned success from
\* the immediate evaluation.
C11_Witness ==
    /\ pollTimeout < pollInterval
    /\ pollPc = "done"
    /\ pollResult = "ok"
    /\ pollEvals = 1
    /\ pollSleeps = 0

C13_PollErrorTolerance ==
    /\ pollResult # "error"
    /\ pollPc = "done" /\ pollLast.err # nil =>
         pollResult = "timeout" /\ pollClosed
    /\ pollEvals >= 1 /\ ConditionHolds => pollPc = "done" /\ pollResult = "ok"

\* The Get failed on attempts 1..k (k >= 2) and the condition of
\* testPodSelfHeal held on attempt k+1, before the timer fired: success.
C13_Witness ==
    /\ pollCond = "testPodSelfHeal"
    /\ pollResult = "ok"
    /\ pollErrs >= 2
    /\ pollEvals = pollErrs + 1
    /\ ~pollClosed

----------------------------------------------------------------------------
\* Properties of the probes

\* The evaluation of testPodSelfHeal's condition that this step makes reads
\* a ready count of at least the baseline.
ObservesRecovery == depErr' = nil /\ cluster'.ready >= initialReplicas

\* C14: once pod-selfheal has captured the baseline and deleted a pod, an
\* evaluation inside the 60 s window (one every 5 s) that observes
\* readyReplicas >= baseline ends the probe with PASS and a message naming
\* the deleted pod; the probe ends with FAIL "Pod was not replaced within
\* timeout" when the window is over and no evaluation observed it; it does
\* not end otherwise.
C14_SelfHealOutcome ==
    [][ppc = "poll" =>
         /\ pollTick * PollInterval <= SelfHealTimeout
         /\ pollClosed => pollTick * PollInterval = SelfHealTimeout
         /\ ObservesRecovery =>
              /\ ppc' = "idle"
              /\ results' = Append(results,
                    TestResult("pod-selfheal", "PASS",
                               Msg("Pod was replaced successfully", podName)))
         /\ ~ObservesRecovery /\ pollClosed =>
              /\ ppc' = "idle"
              /\ results' = Append(results,
                    TestResult("pod-selfheal", "FAIL",
                               Msg("Pod was not replaced within timeout", <<>>)))
         /\ ~ObservesRecovery /\ ~pollClosed =>
              ppc' = "poll" /\ results' = results]_vars

\* One run of the probe timed out and another passed naming the pod it
\* deleted.
C14_Witness ==
    /\ Len(results) = 2
    /\ results[1] = TestResult("pod-selfheal", "FAIL",
                               Msg("Pod was not replaced within timeout", <<>>))
    /\ results[2].Name = "pod-selfheal"
    /\ results[2].Status = "PASS"
    /\ results[2].Message = Msg("Pod was replaced successfully", <<"demo", 2>>)

\* C15 (as claimed): pod-selfheal reports PASS only when the pod it deleted
\* has been replaced: at the PASS the deployment has a pod for every wanted
\* replica again.
C15_PassMeansReplaced ==
    [][ppc = "poll" /\ ppc' = "idle" /\ results'[Len(results')].Status = "PASS"
         => Len(cluster'.pods) >= cluster'.want]_vars

\* C16: policy-deny makes one Create of the privileged pod and returns
\* without polling: when the Create is rejected as Denied the result is
\* PASS after that single request; when the Create succeeds the result is
\* FAIL and a Delete of the created pod has been sent (two requests) before
\* the probe returns.
C16_PolicyDenyOneShot ==
    [][AtProbe("testPolicyDeny") =>
         /\ ppc' = "idle"
         /\ pollTick' = pollTick /\ pollClosed' = pollClosed
         /\ Len(results') = Len(results) + 1
         /\ createErr' = DeniedErr =>
              /\ probeCalls' = 1
              /\ cluster' = cluster
              /\ results' = Append(results,
                    TestResult("policy-deny", "PASS",
                               Msg("Privileged pod was correctly denied by policy", <<>>)))
         /\ createErr' = nil =>
              /\ probeCalls' = 2
              /\ results' = Append(results,
                    TestResult("policy-deny", "FAIL",
                               Msg("Privileged pod was not denied by policy", <<>>)))]_vars

\* A run whose first policy-deny created the pod, failed and deleted it, and
\* whose second policy-deny was denied and passed.
C16_Witness ==
    /\ Len(results) = 2
    /\ results[1].Name = "policy-deny" /\ results[1].Status = "FAIL"
    /\ results[2].Name = "policy-deny" /\ results[2].Status = "PASS"
    /\ createErr = DeniedErr
    /\ ~cluster.testPod

----------------------------------------------------------------------------
\* Properties of the configuration file

\* C17: for every configuration object, when WriteConfig wrote the file,
\* LoadConfig of the same path succeeds and returns an object whose every
\* string, int and bool field, in every top-level section, equals the
\* written one.
C17_ConfigRoundTrip ==
    cpc = "done" /\ yamlFile # NoFile =>
        /\ cfgErr = nil
        /\ loaded # NoConfig
        /\ \A f \in ConfigFields : loaded[f] = cfgObj[f]

\* A written and loaded configuration whose profile is the string "null"
\* and whose replica count has two digits.
C17_Witness ==
    /\ cpc = "done"
    /\ yamlFile # NoFile
    /\ loaded # NoConfig
    /\ cfgObj["clusterProfile"] = <<"n", "u", "l", "l">>
    /\ cfgObj["demo.replicas"] >= 10
    /\ ~cfgObj["verify.parallel"]

----------------------------------------------------------------------------
\* Properties of the init command

\* The directory tree the README documents under the GitOps path.
DocumentedTree(gp) ==
    { <<gp, "flux-system">>, <<gp, "flux-system", "gotk-components.yaml">>,
      <<gp, "flux-system", "gotk-sync.yaml">>, <<gp, "platform">>,
      <<gp, "policies">>, <<gp, "netpol">>, <<gp, "apps">> }

\* C18 (as claimed): after a successful kubac init --mode=gitops the GitOps
\* path holds flux-system/ with gotk-components.yaml and gotk-sync.yaml,
\* platform/, policies/, netpol/ and apps/.
C18_InitGitOpsTree ==
    initPc.at = "done" /\ exitErr = nil /\ initMode = "gitops" =>
        DocumentedTree(GitOpsPath(cfgFile)) \subseteq fs

\* kubac.yaml was there before init started: it exists and this run did not
\* write it.
PreExistingConfig == ConfigFileName \in fs /\ ConfigFileName \notin rendered

\* C29: init never overwrites an existing configuration: when kubac.yaml
\* already exists, init returns the error "kubac.yaml already exists,
\* refusing to overwrite", leaves the content of the file as it was and
\* creates no GitOps directory (it writes nothing at all); the config file
\* is written only in a run that found no kubac.yaml.
C29_InitNeverOverwrites ==
    /\ [](PreExistingConfig =>
            /\ rendered = {}
            /\ cfgFile = DefaultConfig("direct")
            /\ initPc.at \in {"stat", "done"}
            /\ initPc.at = "done" =>
                  exitErr = <<"kubac.yaml already exists, refusing to overwrite">>)
    /\ [][(ConfigFileName \in rendered' \ rendered) => ConfigFileName \notin fs]_vars

\* init --mode=gitops ended with the refusal in a directory that already
\* held kubac.yaml and part of a GitOps tree, and created nothing.
C29_Witness ==
    /\ initPc.at = "done"
    /\ initMode = "gitops"
    /\ exitErr = <<"kubac.yaml already exists, refusing to overwrite">>
    /\ fs = {ConfigFileName, <<DefaultGitOpsPath>>, <<DefaultGitOpsPath, "apps">>}
    /\ rendered = {}
    /\ cfgFile = DefaultConfig("direct")

----------------------------------------------------------------------------
\* Properties of the doctor command

SomeCheckFailed(cs) == \E k \in 1..Len(cs) : cs[k].Status = "FAIL"

PrintJSONFailed == exitErr # nil /\ exitErr[1] = "failed to print JSON"

\* C19 (as claimed): AllPassed() is false iff some check has status FAIL,
\* and the doctor command exits non-zero exactly when AllPassed() is false,
\* after it printed all four check results.
C19_DoctorExitIffFail ==
    /\ ChecksAllPassed(checks) <=> ~SomeCheckFailed(checks)
    /\ dpc = "done" =>
         /\ exitErr # nil <=> ~ChecksAllPassed(checks)
         /\ Len(docPrinted) = 4

\* C19 (amended): AllPassed() is false iff some check has status FAIL (WARN
\* and SKIP leave it true); the doctor command exits non-zero exactly when
\* AllPassed() is false or the JSON output could not be written, and unless
\* the JSON output could not be written it has printed all four check
\* results before it exits.
C19_DoctorExit ==
    /\ ChecksAllPassed(checks) <=> ~SomeCheckFailed(checks)
    /\ dpc = "done" =>
         /\ Len(checks) = 4
         /\ exitErr # nil <=> (~ChecksAllPassed(checks) \/ PrintJSONFailed)
         /\ PrintJSONFailed => docOutput = "json"
         /\ ~PrintJSONFailed => docPrinted = checks

\* A run whose checks hold a WARN and no FAIL exited 0 after printing the
\* four results.
C19_Witness ==
    /\ dpc = "done"
    /\ exitErr = nil
    /\ Len(docPrinted) = 4
    /\ \E k \in 1..4 : checks[k].Status = "WARN"

----------------------------------------------------------------------------
\* Properties of the probes' one-shot calls

\* C20 (as claimed): a one-shot call of a probe that fails with a network
\* or auth error (neither a policy denial nor a missing resource) gives the
\* result FAIL with the raw error attached: the Get of pod-selfheal and of
\* hpa-scale and the List of network-deny (whose messages carry the error),
\* and the Create of policy-deny.
C20_OneShotErrorIsFail ==
    /\ \A k \in 1..Len(results) :
          results[k].Message.args = ConnErr => results[k].Status = "FAIL"
    /\ results # <<>> /\ results[Len(results)].Name = "policy-deny"
          /\ createErr = ConnErr =>
             /\ results[Len(results)].Status = "FAIL"
             /\ results[Len(results)].Message.args = ConnErr

----------------------------------------------------------------------------
\* Properties of the steps' enabled flags

\* No applyManifests call and no apply request of this run names the bundle.
NeverApplied(path) ==
    /\ \A k \in 1..Len(applyLog) : applyLog[k] # path
    /\ \A k \in 1..Len(clusterReqs) :
          clusterReqs[k][1] = "apply" => clusterReqs[k][2] # path

\* C25: a step disabled in the configuration is skipped entirely: with its
\* enabled flag false, none of the manifests of metrics-server, of
\* kube-state-metrics, of the policy block (Kyverno and the baseline
\* policies, with no readiness wait either) or of the network policies is
\* applied; the enabled steps still run, in their relative order, so that a
\* direct install that succeeded has applied exactly the enabled bundles.
C25_DisabledStepSkipped ==
    InstallRan =>
        /\ ~config.MetricsServer => NeverApplied(MetricsServerPath)
        /\ ~config.KubeStateMetrics => NeverApplied(KubeStateMetricsPath)
        /\ ~config.Policy =>
              /\ NeverApplied(KyvernoPath)
              /\ NeverApplied(BaselinePath)
              /\ waitResult = "none"
              /\ ipc # "wait"
        /\ ~config.NetworkPolicy => NeverApplied(NetpolPath)
        /\ (config.Mode # "gitops" /\ ipc = "done" /\ installErr = nil) =>
              /\ applyLog = EnabledSteps(config)
              /\ config.Policy => waitResult = "ready"

\* A direct install with metrics-server and the policy block disabled
\* succeeded having applied kube-state-metrics and the network policies.
C25_Witness ==
    /\ InstallRan /\ config.Mode = "direct"
    /\ ipc = "done" /\ installErr = nil
    /\ ~config.MetricsServer /\ ~config.Policy
    /\ applyLog = <<KubeStateMetricsPath, NetpolPath>>
    /\ FullyApplied(KubeStateMetricsPath) /\ FullyApplied(NetpolPath)

----------------------------------------------------------------------------
\* Properties of the order of execution

\* The probes RunAll has called and that have not returned yet.
RunningProbes == Len(invoked) - Len(results)

\* C26: probes never run concurrently: at every moment of a verify run, with
\* verify.parallel true (the default) or false, at most one probe is running,
\* a poll is active only inside that one running probe (pod-selfheal), and
\* the result list grows in the order of the loop: its k-th entry is the
\* result of the k-th call, for the k-th configured test.
C26_NoConcurrentProbes ==
    /\ RunningProbes \in {0, 1}
    /\ ppc = "poll" <=> RunningProbes = 1
    /\ ppc = "poll" => invoked[Len(invoked)] = "testPodSelfHeal"
    /\ ppc = "idle" => pollTick = 0 /\ ~pollClosed
    /\ Len(invoked) <= Len(config.Tests)
    /\ \A k \in 1..Len(invoked) : invoked[k] = ProbeOf(config.Tests[k])
    /\ \A k \in 1..Len(results) : results[k].Name = config.Tests[k]

\* With verify.parallel set, pod-selfheal is polling (past its first tick)
\* after an earlier pod-selfheal returned.
C26_Witness ==
    /\ config.Parallel
    /\ config.Tests = <<"pod-selfheal", "pod-selfheal">>
    /\ Len(results) = 1
    /\ ppc = "poll" /\ pollTick > 0
    /\ Len(invoked) = 2

\* The seconds of the duration verify.timeout names, for the default "300s".
ConfiguredTimeout(cfg) == IF cfg.VerifyTimeout = "300s" THEN 300 ELSE 0

\* C27 (as claimed): the window of pod-selfheal's poll is taken from the
\* run's configuration: the poll gives up when the configured verify timeout
\* has elapsed, not after a fixed 60 s.
C27_PollWindowConfigured ==
    [][ppc = "poll" /\ ~pollClosed /\ pollClosed'
         => pollTick' * PollInterval = ConfiguredTimeout(config)]_vars

----------------------------------------------------------------------------
\* Properties of the probes' effects on the cluster

\* C21 (as claimed): policy-deny leaks no test artifact: whenever the probe
\* returns after its Create of test-privileged-pod was accepted, that pod no
\* longer exists in the demo namespace.
C21_PolicyDenyNoLeak ==
    [][AtProbe("testPolicyDeny") /\ createErr' = nil => ~cluster'.testPod]_vars

\* pod-selfheal returned the given status and message text at this step.
SelfHealReturns(status, text) ==
    /\ ppc' = "idle"
    /\ Len(results') = Len(results) + 1
    /\ results'[Len(results')].Name = "pod-selfheal"
    /\ results'[Len(results')].Status = status
    /\ results'[Len(results')].Message.text = text

\* C22: pod-selfheal returns SKIP when the Get of the demo deployment fails
\* and FAIL when no app=demo pod is found or the pod delete fails; in the
\* SKIP and no-pod cases it has deleted no pod, and in none of the three
\* cases does it start polling: polling starts only after the deployment
\* was read and the first listed pod was deleted.
C22_SelfHealPreconditions ==
    [][AtProbe("testPodSelfHeal") =>
         /\ depErr' # nil =>
              /\ SelfHealReturns("SKIP", "Demo app not deployed")
              /\ results'[Len(results')].Message.args = depErr'
              /\ cluster' = cluster
              /\ probeCalls' = 1
         /\ depErr' = nil /\ cluster.pods = <<>> =>
              /\ SelfHealReturns("FAIL", "No demo pods found")
              /\ cluster' = cluster
              /\ probeCalls' = 2
         /\ depErr' = nil /\ probeCalls' = 3 /\ cluster'.pods = cluster.pods =>
              SelfHealReturns("FAIL", "Failed to delete pod")
         /\ ppc' = "idle" =>
              /\ pollTick' = pollTick /\ pollClosed' = pollClosed
              /\ results'[Len(results')].Status \in {"SKIP", "FAIL"}
         /\ ppc' = "poll" =>
              /\ depErr' = nil
              /\ cluster.pods # <<>>
              /\ cluster'.pods = Tail(cluster.pods)
              /\ podName' = cluster.pods[1]
              /\ results' = results]_vars

\* A run whose first pod-selfheal was skipped because the deployment could
\* not be read and whose second one failed to delete the pod it had listed,
\* with every pod still there and no poll started.
C22_Witness ==
    /\ Len(results) = 2
    /\ results[1].Name = "pod-selfheal" /\ results[1].Status = "SKIP"
    /\ results[2].Name = "pod-selfheal" /\ results[2].Status = "FAIL"
    /\ results[2].Message.text = "Failed to delete pod"
    /\ cluster.pods # <<>>
    /\ ppc = "idle"

----------------------------------------------------------------------------
\* Properties of the read-only probes

\* The HPA object matches the configured bounds.
HPAMatches(hpa, cfg) ==
    hpa.minSet /\ hpa.min = cfg.HPAMinReplicas /\ hpa.max = cfg.HPAMaxReplicas

HasDefaultDeny(items) ==
    \E k \in 1..Len(items) : items[k].ingress = 0 /\ items[k].egress = 0

\* C24: network-deny gives SKIP when the policies of the demo namespace
\* cannot be listed, FAIL when there are none, WARN when there is at least
\* one but none with empty ingress and empty egress rules, PASS when such a
\* default-deny policy exists; a WARN result leaves AllPassed() as it was,
\* and the command that reaches its AllPassed() test exits non-zero only
\* when some result is FAIL.
C24_NetworkDenyClassifies ==
    [][/\ AtProbe("testNetworkDeny") =>
            /\ probeCalls' = 1
            /\ cluster' = cluster
            /\ netpolAnswer' = netpolAnswer
            /\ Len(results') = Len(results) + 1
            /\ LET result == results'[Len(results')]
                   items == netpolAnswer.items
               IN /\ result.Name = "network-deny"
                  /\ netpolAnswer.err # nil => result.Status = "SKIP"
                  /\ netpolAnswer.err = nil /\ Len(items) = 0 => result.Status = "FAIL"
                  /\ netpolAnswer.err = nil /\ Len(items) > 0 /\ ~HasDefaultDeny(items) =>
                       /\ result.Status = "WARN"
                       /\ AllPassed(SummaryOf(results')) = AllPassed(SummaryOf(results))
                  /\ netpolAnswer.err = nil /\ HasDefaultDeny(items) =>
                       result.Status = "PASS"
       /\ vpc = "exit" =>
            (exitErr' # nil <=> \E k \in 1..Len(results) : results[k].Status = "FAIL")]_vars

\* A finished run whose only result is the WARN of network-deny for a single
\* policy that is not a default deny, and which exited 0.
C24_Witness ==
    /\ vpc = "done"
    /\ exitErr = nil
    /\ Len(results) = 1
    /\ results[1].Name = "network-deny"
    /\ results[1].Status = "WARN"
    /\ netpolAnswer = [err |-> nil, items |-> << [ingress |-> 1, egress |-> 0] >>]
    /\ printed # NoReport

----------------------------------------------------------------------------
\* Properties of the uninstall command

\* C28 (as claimed): uninstall without --force deletes nothing unless the
\* operator's answer is exactly "yes".
C28_ExactYes ==
    (~force /\ answer # <<"yes">>) => deleteLog = <<>>

\* C28 (amended): uninstall without --force issues no namespace delete
\* before the prompt is answered, and when the first word of the answer is
\* anything other than exactly "yes" (an empty answer included) it issues no
\* delete at all, leaves the cluster unchanged and exits 0; a delete is only
\* ever issued with --force or after that first word was "yes".
C28_UninstallConfirm ==
    /\ [](~force /\ upc \in {"cmd", "prompt"} => deleteLog = <<>>)
    /\ [][~force /\ Scanln(answer) # "yes" =>
            /\ cluster' = cluster
            /\ deleteLog' = <<>>
            /\ upc = "prompt" => (upc' = "done" /\ exitErr' = nil)]_vars
    /\ [][deleteLog' # deleteLog => (force \/ response = "yes")]_vars

\* Without --force the operator answered "no yes": the command ended with
\* exit code 0 and every namespace is still there.
C28_Witness ==
    /\ ~force
    /\ upc = "done"
    /\ answer = <<"no", "yes">>
    /\ response = "no"
    /\ exitErr = nil
    /\ deleteLog = <<>>
    /\ cluster.namespaces = {"kubac-system", "kyverno", "kubac-demo"}

\* C30: Uninstall is best-effort and never aborts: it issues a delete for
\* kubac-system, kyverno and (when not empty) the demo namespace, in that
\* order; once the loop has started, a failed delete does not keep it from
\* issuing the following ones; and Uninstall returns success whatever the
\* outcomes of the deletes.
C30_UninstallBestEffort ==
    LET namespaces == UninstallNamespaces(config) IN
    /\ Len(deleteLog) <= Len(namespaces)
    /\ \A k \in 1..Len(deleteLog) : deleteLog[k].ns = namespaces[k]
    /\ (deleteLog # <<>> /\ Len(deleteLog) < Len(namespaces)) => upc = "delete"
    /\ Len(deleteLog) = Len(namespaces) => (upc \in {"return", "done"} /\ exitErr = nil)
    /\ upc = "return" => Len(deleteLog) = Len(namespaces)

\* Uninstall ended with exit code 0 after the delete of kubac-system was
\* refused, kyverno was not found and the demo namespace was deleted.
C30_Witness ==
    /\ upc = "done"
    /\ exitErr = nil
    /\ Len(deleteLog) = 3
    /\ deleteLog[1].err = ConnErr
    /\ deleteLog[2].err = NotFoundErr("kyverno")
    /\ deleteLog[3] = [ns |-> "kubac-demo", err |-> nil, warned |-> FALSE]
    /\ cluster.namespaces = {"kubac-system"}

====
